---- MODULE Spec2Model ----
(***************************************************************************)
(* Model of the appointment-scheduling server: the Express routes of       *)
(* server/routes.ts over the TursoStorage record store                     *)
(* (server/turso-storage.ts, tables of server/turso-db.ts).                *)
(*                                                                         *)
(* Every database statement (one tursoClient.execute) is atomic; a handler *)
(* is suspended at each await, so the statements of concurrent requests    *)
(* interleave.  A request that is suspended, or whose outcome is compared  *)
(* with that of other requests, occupies a slot; a handler that issues at  *)
(* most one statement answers in one step and leaves its response in resp. *)
(***************************************************************************)
EXTENDS Integers, FiniteSets, Sequences, TLC

(* ------------------------------ bounds --------------------------------- *)
MaxAvail == 2
MaxReq == 3
MaxCodes == 3
MaxAuthReq == 1

(* ------------------------ values and input sets ------------------------ *)
\* undefined / missing string
None == ""

\* roles of userRoleEnum
Roles == {"admin", "embasa", "sac"}

\* req.session.user of a session without login
NoUser == [id |-> 0, code |-> None, role |-> None]

\* "HH:MM" strings are written <<HH, MM>>
T0800 == <<8, 0>>
T1000 == <<10, 0>>

VARIABLES
  accessCodes,          \* table access_codes: id -> row
  accessCodeSeq,        \* AUTOINCREMENT high-water mark of access_codes
  availabilities,       \* table availabilities: id -> row
  availabilitySeq,      \* AUTOINCREMENT high-water mark of availabilities
  bookings,             \* table bookings: id -> row
  bookingSeq,           \* AUTOINCREMENT high-water mark of bookings
  sessions,             \* session store: session id -> req.session.user
  reqs,                 \* booking / availability-delete requests (slots)
  areqs,                \* login / access-code-create requests (slots)
  resp,                 \* response of the last single-statement handler
  mem                   \* a MemStorage beside the database: its maps and ids

vars == <<accessCodes, accessCodeSeq, availabilities, availabilitySeq,
          bookings, bookingSeq, sessions, reqs, areqs, resp, mem>>

Req == 1..MaxReq
AuthReq == 1..MaxAuthReq
SessionIds == {"s1", "s2", "s3", "s4"}

(* ----------------------------- middleware ------------------------------ *)
\* a requireAuth that lets every request through
requireAuthOpen(user) == TRUE

\* requireAuth: passes iff req.session.user is set
requireAuth(user) == user /= NoUser

\* a requireRole that only looks for a user, not at its role
requireRoleAnyUser(user, roles) == user /= NoUser

\* requireRole(roles): passes iff a user is set and its role is listed
requireRole(user, roles) == user /= NoUser /\ user.role \in roles

\* gates that look the session's user up in access_codes on every request
GateOnStoredRow(user, roles) ==
  IF user = NoUser THEN 401
  ELSE IF user.id \notin DOMAIN accessCodes THEN 401
  ELSE IF ~accessCodes[user.id].active THEN 401
  ELSE IF accessCodes[user.id].role \notin roles THEN 403
  ELSE 0

\* status of the two gates in front of a role-gated handler, 0 when both pass
Gate(user, roles) ==
  IF ~requireAuth(user) THEN 401
  ELSE IF ~requireRole(user, roles) THEN 403
  ELSE 0

(* --------------------------- JavaScript bits --------------------------- *)
\* x || y on numbers: 0 (like undefined) is falsy
OrNum(x, y) == IF x = 0 THEN y ELSE x

\* x || y on strings: "" (like undefined) is falsy
OrStr(x, y) == IF x = "" THEN y ELSE x

\* parseInt(t.split(':')[0]) * 60 + parseInt(t.split(':')[1])
TotalMinutes(t) == t[1] * 60 + t[2]

(* ------------------------ TursoStorage: availabilities ----------------- *)
\* getAvailability: SELECT * FROM availabilities WHERE id = ?
HasAvailability(id) == id \in DOMAIN availabilities

getAvailability(id) == availabilities[id]

\* a 2-hour check that already throws at exactly two hours
createAvailabilityThrowsAtTwoHours(a) ==
  TotalMinutes(a.endTime) - TotalMinutes(a.startTime) >= 120

\* createAvailability: the 2-hour check that throws before the INSERT
createAvailabilityThrows(a) ==
  TotalMinutes(a.endTime) - TotalMinutes(a.startTime) > 120

\* createAvailability: the row the INSERT ... RETURNING * stores
createAvailabilityRow(a, id) ==
  [id |-> id, date |-> a.date, startTime |-> a.startTime, endTime |-> a.endTime,
   capacity |-> a.capacity,
   remainingSlots |-> OrNum(a.remainingSlots, a.capacity),
   createdBy |-> a.createdBy]

\* updateAvailability(id, {remainingSlots: n}): UPDATE ... WHERE id = ?;
\* updates no row (and returns undefined) when the id is absent
updateAvailability(id, n) ==
  IF id \in DOMAIN availabilities
  THEN [availabilities EXCEPT ![id].remainingSlots = n]
  ELSE availabilities

\* deleteAvailability: DELETE FROM availabilities WHERE id = ?
deleteAvailability(id) ==
  [i \in DOMAIN availabilities \ {id} |-> availabilities[i]]

(* -------------------------- TursoStorage: bookings --------------------- *)
\* createBooking: the row the INSERT INTO bookings ... RETURNING * stores
createBookingRow(b, id) ==
  [id |-> id, availabilityId |-> b.availabilityId, timeSlot |-> b.timeSlot,
   createdBy |-> b.createdBy, status |-> OrStr(b.status, "confirmed")]

\* a listing without the WHERE clause
listBookingsOfEveryUser(createdBy) == DOMAIN bookings

\* a listing joined with availabilities: bookings of deleted ones drop out
listBookingsOfStoredAvailabilities(createdBy) ==
  {i \in DOMAIN bookings : /\ bookings[i].createdBy = createdBy
                            /\ bookings[i].availabilityId \in DOMAIN availabilities}

\* listBookingsByUser: SELECT * FROM bookings WHERE created_by = ?
\* (the ids of the rows returned)
listBookingsByUser(createdBy) ==
  {i \in DOMAIN bookings : bookings[i].createdBy = createdBy}

\* listBookingsByAvailability: SELECT ... WHERE availability_id = ?
listBookingsByAvailability(aid) ==
  {i \in DOMAIN bookings : bookings[i].availabilityId = aid}

(* -------------------- POST /api/availabilities ------------------------- *)
\* manual validation of the body; 0 when it passes
ValidateAvailabilityBody(body) ==
  IF body.date = None THEN 400
  ELSE IF body.startTime = <<>> \/ body.endTime = <<>> THEN 400
  ELSE IF body.capacity = 0 THEN 400
  ELSE 0

\* a route that forwarded the client's own remainingSlots
RouteInsertAvailabilityFromBody(body, user) ==
  [date |-> body.date, startTime |-> body.startTime, endTime |-> body.endTime,
   capacity |-> body.capacity, remainingSlots |-> body.remainingSlots,
   createdBy |-> user.code]

\* the InsertAvailability the route hands to storage.createAvailability
RouteInsertAvailability(body, user) ==
  [date |-> body.date, startTime |-> body.startTime, endTime |-> body.endTime,
   capacity |-> body.capacity, remainingSlots |-> body.capacity,
   createdBy |-> user.code]

PostAvailabilities(s, body) ==
  /\ UNCHANGED mem
  /\ LET user == sessions[s]
         gate == Gate(user, {"embasa"})
         bad == ValidateAvailabilityBody(body)
         a == RouteInsertAvailability(body, user)
         id == availabilitySeq + 1
     IN /\ IF gate /= 0
           THEN /\ resp' = [op |-> "POST /api/availabilities", status |-> gate,
                            id |-> 0, body |-> body]
                /\ UNCHANGED <<availabilities, availabilitySeq>>
           ELSE IF bad /= 0
           THEN /\ resp' = [op |-> "POST /api/availabilities", status |-> bad,
                            id |-> 0, body |-> body]
                /\ UNCHANGED <<availabilities, availabilitySeq>>
           ELSE IF createAvailabilityThrows(a)
           THEN /\ resp' = [op |-> "POST /api/availabilities", status |-> 500,
                            id |-> 0, body |-> body]
                /\ UNCHANGED <<availabilities, availabilitySeq>>
           ELSE /\ id <= MaxAvail
                /\ availabilities' =
                     [i \in DOMAIN availabilities \cup {id} |->
                        IF i = id THEN createAvailabilityRow(a, id)
                        ELSE availabilities[i]]
                /\ availabilitySeq' = id
                /\ resp' = [op |-> "POST /api/availabilities", status |-> 201,
                            id |-> id, body |-> body]
        /\ UNCHANGED <<accessCodes, accessCodeSeq, bookings, bookingSeq,
                       sessions, reqs, areqs>>

(* ------------------------------ requests ------------------------------- *)
Idle ==
  [op |-> "idle", pc |-> "idle", user |-> NoUser, aid |-> 0, timeSlot |-> <<>>,
   bstatus |-> None, createdBy |-> None, remaining |-> 0, bid |-> 0,
   updated |-> FALSE, status |-> 0]

\* a new request takes the first free slot (slots are never given back, so
\* which free slot it takes makes no difference)
FreeSlot(r) ==
  /\ reqs[r].pc = "idle"
  /\ \A q \in Req : q < r => reqs[q].pc /= "idle"

\* a request the middleware or the body validation rejects never suspends
Rejected(op, status) == [op |-> op, status |-> status, id |-> 0]

(* ---------------------- DELETE /api/availabilities/:id ----------------- *)
\* a route without the ownership check
NotCreatorNever(availability, user) == FALSE

\* availability.createdBy !== req.session.user.code
NotCreator(availability, user) == availability.createdBy /= user.code

\* gates, then storage.getAvailability(id) and the ownership check
DeleteAvailabilities(r, s, id) ==
  /\ UNCHANGED mem
  /\ LET user == sessions[s]
         gate == Gate(user, {"embasa"})
         me == [Idle EXCEPT !.op = "deleteAvailability", !.user = user, !.aid = id]
     IN /\ FreeSlot(r)
        /\ IF gate /= 0
           THEN /\ resp' = Rejected("DELETE /api/availabilities", gate)
                /\ UNCHANGED reqs
           ELSE /\ UNCHANGED resp
                /\ IF ~HasAvailability(id)
                   THEN reqs' = [reqs EXCEPT ![r] = [me EXCEPT !.pc = "done", !.status = 404]]
                   ELSE IF NotCreator(getAvailability(id), user)
                   THEN reqs' = [reqs EXCEPT ![r] = [me EXCEPT !.pc = "done", !.status = 403]]
                   ELSE reqs' = [reqs EXCEPT ![r] = [me EXCEPT !.pc = "delete"]]
        /\ UNCHANGED <<accessCodes, accessCodeSeq, availabilities, availabilitySeq,
                       bookings, bookingSeq, sessions, areqs>>

\* storage.deleteAvailability(id) and the response
DeleteAvailabilitiesDelete(r) ==
  /\ UNCHANGED mem
  /\ LET me == reqs[r]
     IN /\ me.pc = "delete"
        /\ availabilities' = deleteAvailability(me.aid)
        /\ reqs' = [reqs EXCEPT ![r] =
                      [me EXCEPT !.pc = "done",
                                 !.status = IF HasAvailability(me.aid) THEN 200 ELSE 404]]
        /\ UNCHANGED <<accessCodes, accessCodeSeq, availabilitySeq,
                       bookings, bookingSeq, sessions, areqs, resp>>

(* --------------------------- POST /api/bookings ------------------------ *)
\* a route that spread req.body over the session's code
RouteBookingCreatedByFromBody(body, user) == OrStr(body.createdBy, user.code)

\* createdBy of {...req.body, createdBy: req.session.user.code}
RouteBookingCreatedBy(body, user) == user.code

\* a check that lets every availability through
SlotsExhaustedNever(availability) == FALSE

\* availability.remainingSlots <= 0, the test of the route and of createBooking
SlotsExhausted(availability) == availability.remainingSlots <= 0

\* gates, validateRequest(insertBookingSchema), then the route's own
\* storage.getAvailability and its two checks
PostBookings(r, s, body) ==
  /\ UNCHANGED mem
  /\ LET user == sessions[s]
         gate == Gate(user, {"sac"})
         me == [Idle EXCEPT !.op = "createBooking", !.user = user,
                            !.aid = body.availabilityId, !.timeSlot = body.timeSlot,
                            !.bstatus = body.status,
                            !.createdBy = RouteBookingCreatedBy(body, user)]
     IN /\ FreeSlot(r)
        /\ IF gate /= 0
           THEN /\ resp' = Rejected("POST /api/bookings", gate)
                /\ UNCHANGED reqs
           ELSE IF body.createdBy = None \/ body.timeSlot = <<>>
           THEN /\ resp' = Rejected("POST /api/bookings", 400)
                /\ UNCHANGED reqs
           ELSE /\ UNCHANGED resp
                /\ IF ~HasAvailability(body.availabilityId)
                   THEN reqs' = [reqs EXCEPT ![r] = [me EXCEPT !.pc = "done", !.status = 404]]
                   ELSE IF SlotsExhausted(getAvailability(body.availabilityId))
                   THEN reqs' = [reqs EXCEPT ![r] = [me EXCEPT !.pc = "done", !.status = 400]]
                   ELSE reqs' = [reqs EXCEPT ![r] = [me EXCEPT !.pc = "get"]]
        /\ UNCHANGED <<accessCodes, accessCodeSeq, availabilities, availabilitySeq,
                       bookings, bookingSeq, sessions, areqs>>

\* TursoStorage.createBooking: getAvailability and the two throws
CreateBookingGet(r) ==
  /\ UNCHANGED mem
  /\ LET me == reqs[r]
     IN /\ me.pc = "get"
        /\ IF ~HasAvailability(me.aid)
           THEN reqs' = [reqs EXCEPT ![r] = [me EXCEPT !.pc = "done", !.status = 500]]
           ELSE IF SlotsExhausted(getAvailability(me.aid))
           THEN reqs' = [reqs EXCEPT ![r] = [me EXCEPT !.pc = "done", !.status = 500]]
           ELSE reqs' = [reqs EXCEPT ![r] =
                           [me EXCEPT !.pc = "insert",
                                      !.remaining = getAvailability(me.aid).remainingSlots]]
        /\ UNCHANGED <<accessCodes, accessCodeSeq, availabilities, availabilitySeq,
                       bookings, bookingSeq, sessions, areqs, resp>>

\* TursoStorage.createBooking: INSERT INTO bookings
CreateBookingInsert(r) ==
  /\ UNCHANGED mem
  /\ LET me == reqs[r]
         id == bookingSeq + 1
         b == [availabilityId |-> me.aid, timeSlot |-> me.timeSlot,
               createdBy |-> me.createdBy, status |-> me.bstatus]
     IN /\ me.pc = "insert"
        /\ bookings' = [i \in DOMAIN bookings \cup {id} |->
                          IF i = id THEN createBookingRow(b, id) ELSE bookings[i]]
        /\ bookingSeq' = id
        /\ reqs' = [reqs EXCEPT ![r] = [me EXCEPT !.pc = "update", !.bid = id]]
        /\ UNCHANGED <<accessCodes, accessCodeSeq, availabilities, availabilitySeq,
                       sessions, areqs, resp>>

\* a write-back that takes two slots per booking
DecrementedSlotsTwice(read) == read - 2

\* the value createBooking writes back: the remainingSlots it read, minus 1
DecrementedSlots(read) == read - 1

\* status of POST /api/bookings once createBooking returns the booking; the
\* result of updateAvailability is not looked at
CreateBookingReturns(updated) == 201

\* TursoStorage.createBooking: updateAvailability(remainingSlots - 1), return
CreateBookingUpdate(r) ==
  /\ UNCHANGED mem
  /\ LET me == reqs[r]
         hit == HasAvailability(me.aid)
     IN /\ me.pc = "update"
        /\ availabilities' = updateAvailability(me.aid, DecrementedSlots(me.remaining))
        /\ reqs' = [reqs EXCEPT ![r] =
                      [me EXCEPT !.pc = "done", !.updated = hit, !.remaining = 0,
                                 !.status = CreateBookingReturns(hit)]]
        /\ UNCHANGED <<accessCodes, accessCodeSeq, availabilitySeq,
                       bookings, bookingSeq, sessions, areqs, resp>>

(* ------------------------ TursoStorage: access codes ------------------- *)
\* getAccessCode: SELECT * FROM access_codes WHERE code = ? AND active = 1
\* (the ids of the matching rows; rows[0] is returned when there is one)
getAccessCode(code) ==
  {i \in DOMAIN accessCodes : accessCodes[i].code = code /\ accessCodes[i].active}

\* a table whose code column lacked UNIQUE
UniqueViolationNever(code, id) == FALSE

\* code TEXT NOT NULL UNIQUE: would a row other than `id` hold this code?
UniqueViolation(code, id) ==
  \E i \in DOMAIN accessCodes \ {id} : accessCodes[i].code = code

\* createAccessCode: does the INSERT throw?  (UNIQUE on code; a missing
\* `active` is bound as undefined, which the INSERT rejects)
createAccessCodeThrows(a) ==
  UniqueViolation(a.code, 0) \/ a.active = "undefined"

\* an INSERT whose first two arguments were bound in the wrong order
createAccessCodeRowSwapped(a, id) ==
  [id |-> id, code |-> a.role, role |-> a.code,
   location |-> OrStr(a.location, ""), active |-> (a.active = "true")]

\* createAccessCode: the row the INSERT ... RETURNING * stores
createAccessCodeRow(a, id) ==
  [id |-> id, code |-> a.code, role |-> a.role,
   location |-> OrStr(a.location, ""), active |-> (a.active = "true")]

\* updateAccessCode: does it return a row?  No SET clause, no row with the id,
\* or a statement that throws (UNIQUE on code) all give undefined.
updateAccessCodeOk(id, u) ==
  /\ u.set /= {}
  /\ id \in DOMAIN accessCodes
  /\ ~("code" \in u.set /\ UniqueViolation(u.code, id))

\* updateAccessCode: the row UPDATE ... SET <the fields given> leaves
updateAccessCodeRow(row, u) ==
  [id |-> row.id,
   code |-> IF "code" \in u.set THEN u.code ELSE row.code,
   role |-> IF "role" \in u.set THEN u.role ELSE row.role,
   location |-> IF "location" \in u.set THEN u.location ELSE row.location,
   active |-> IF "active" \in u.set THEN u.active ELSE row.active]

\* deleteAccessCode: DELETE FROM access_codes WHERE id = ?
deleteAccessCode(id) ==
  [i \in DOMAIN accessCodes \ {id} |-> accessCodes[i]]

\* listAccessCodes: SELECT * FROM access_codes (the ids of the rows returned)
listAccessCodes == DOMAIN accessCodes

(* ------------------------------ MemStorage ---------------------------- *)
\* new MemStorage(): empty maps, ids from 1, and createAccessCode of the
\* default admin (no location given)
MemStorageNew ==
  [accessCodes |-> [i \in {1} |->
                      [id |-> 1, code |-> "ADM123456", role |-> "admin",
                       location |-> None, active |-> TRUE]],
   accessCodeCurrentId |-> 2,
   availabilities |-> <<>>,
   availabilityCurrentId |-> 1,
   bookings |-> <<>>,
   bookingCurrentId |-> 1]

\* MemStorage.getAccessCode: the values with this code that are active
MemGetAccessCode(m, code) ==
  {i \in DOMAIN m.accessCodes :
     m.accessCodes[i].code = code /\ m.accessCodes[i].active}

\* MemStorage.createAccessCode: {...accessCode, id} under the next id
MemCreateAccessCode(m, a) ==
  LET id == m.accessCodeCurrentId
      row == [id |-> id, code |-> a.code, role |-> a.role,
              location |-> a.location, active |-> (a.active = "true")]
  IN [m EXCEPT !.accessCodeCurrentId = id + 1,
               !.accessCodes = [i \in DOMAIN m.accessCodes \cup {id} |->
                                  IF i = id THEN row ELSE m.accessCodes[i]]]

\* MemStorage.deleteAccessCode: "Instead of deleting, mark as inactive"
MemDeleteAccessCode(m, id) ==
  IF id \in DOMAIN m.accessCodes
  THEN [m EXCEPT !.accessCodes[id].active = FALSE]
  ELSE m

\* MemStorage.createAvailability: {...availability, id}; no 2-hour check
MemCreateAvailability(m, a) ==
  LET id == m.availabilityCurrentId
      row == [id |-> id, date |-> a.date, startTime |-> a.startTime,
              endTime |-> a.endTime, capacity |-> a.capacity,
              remainingSlots |-> a.remainingSlots, createdBy |-> a.createdBy]
  IN [m EXCEPT !.availabilityCurrentId = id + 1,
               !.availabilities = [i \in DOMAIN m.availabilities \cup {id} |->
                                     IF i = id THEN row ELSE m.availabilities[i]]]

\* MemStorage.createBooking: takes a slot when the availability is there and
\* has one, and stores the booking either way
MemCreateBooking(m, b) ==
  LET id == m.bookingCurrentId
      aid == b.availabilityId
      row == [id |-> id, availabilityId |-> aid, timeSlot |-> b.timeSlot,
              createdBy |-> b.createdBy, status |-> b.status]
      taken == IF /\ aid \in DOMAIN m.availabilities
                  /\ m.availabilities[aid].remainingSlots > 0
               THEN [m.availabilities EXCEPT
                       ![aid].remainingSlots = m.availabilities[aid].remainingSlots - 1]
               ELSE m.availabilities
  IN [m EXCEPT !.bookingCurrentId = id + 1,
               !.availabilities = taken,
               !.bookings = [i \in DOMAIN m.bookings \cup {id} |->
                               IF i = id THEN row ELSE m.bookings[i]]]

(* --------------------------- POST /api/auth/login ---------------------- *)
\* a suspended login or access-code creation; the slot is free again once
\* the handler has answered
AuthIdle ==
  [op |-> "idle", pc |-> "idle", sid |-> None,
   body |-> [code |-> None, role |-> None, location |-> None, active |-> None],
   user |-> NoUser,
   stats |-> [adminCount |-> 0, embasaCount |-> 0, sacCount |-> 0],
   todo |-> {}, activeBookings |-> 0]

\* the response of a handler of the access-code and login routes
\* (the id of the row and the code string the request named, where it named one)
Answer(op, status, id, code) == [op |-> op, status |-> status, id |-> id, code |-> code]

\* a login that looked the code up without regard to `active`
LoginUserAnyRow(code) ==
  LET found == {i \in DOMAIN accessCodes : accessCodes[i].code = code}
  IN IF found = {} THEN NoUser
     ELSE LET row == accessCodes[CHOOSE i \in found : TRUE]
          IN [id |-> row.id, code |-> row.code, role |-> row.role]

\* a login that makes every accepted code an admin
LoginUserAsAdmin(code) ==
  LET found == getAccessCode(code)
  IN IF found = {} THEN NoUser
     ELSE LET row == accessCodes[CHOOSE i \in found : TRUE]
          IN [id |-> row.id, code |-> row.code, role |-> "admin"]

\* the user the login handler accepts for an access code, NoUser when it
\* answers 401: storage.getAccessCode, then `!user || !user.active`
LoginUser(code) ==
  LET found == getAccessCode(code)
  IN IF found = {} THEN NoUser
     ELSE LET row == accessCodes[CHOOSE i \in found : TRUE]
          IN IF ~row.active THEN NoUser
             ELSE [id |-> row.id, code |-> row.code, role |-> row.role]

\* a login handler that drops the session's user when it turns a code down
PostLoginClearsSession(r, s, code) ==
  LET user == LoginUser(code)
  IN /\ areqs[r].pc = "idle"
     /\ IF code = None \/ user = NoUser
        THEN /\ resp' = Answer("POST /api/auth/login",
                               IF code = None THEN 400 ELSE 401, 0, code)
             /\ sessions' = [sessions EXCEPT ![s] = NoUser]
             /\ UNCHANGED areqs
        ELSE /\ areqs' = [areqs EXCEPT ![r] =
                            [AuthIdle EXCEPT !.op = "login", !.pc = "save",
                                             !.sid = s, !.user = user]]
             /\ UNCHANGED <<resp, sessions>>
     /\ UNCHANGED <<accessCodes, accessCodeSeq, availabilities, availabilitySeq,
                    bookings, bookingSeq, reqs, mem>>

\* validateRequest(loginSchema), storage.getAccessCode and the 401 check
PostLogin(r, s, code) ==
  /\ UNCHANGED mem
  /\ LET user == LoginUser(code)
     IN /\ areqs[r].pc = "idle"
        /\ IF code = None
           THEN /\ resp' = Answer("POST /api/auth/login", 400, 0, code)
                /\ UNCHANGED areqs
           ELSE IF user = NoUser
           THEN /\ resp' = Answer("POST /api/auth/login", 401, 0, code)
                /\ UNCHANGED areqs
           ELSE /\ areqs' = [areqs EXCEPT ![r] =
                               [AuthIdle EXCEPT !.op = "login", !.pc = "save",
                                                !.sid = s, !.user = user]]
                /\ UNCHANGED resp
        /\ UNCHANGED <<accessCodes, accessCodeSeq, availabilities, availabilitySeq,
                       bookings, bookingSeq, sessions, reqs>>

\* req.session.user = {id, code, role}; req.session.save; res.json
LoginSave(r) ==
  /\ UNCHANGED mem
  /\ LET me == areqs[r]
     IN /\ me.op = "login" /\ me.pc = "save"
        /\ sessions' = [sessions EXCEPT ![me.sid] = me.user]
        /\ areqs' = [areqs EXCEPT ![r] = AuthIdle]
        /\ resp' = Answer("POST /api/auth/login", 200, me.user.id, me.user.code)
        /\ UNCHANGED <<accessCodes, accessCodeSeq, availabilities, availabilitySeq,
                       bookings, bookingSeq, reqs>>

(* --------------------------- POST /api/auth/logout --------------------- *)
\* a logout that answers without destroying the session
PostLogoutKeepsSession(s) ==
  /\ resp' = Answer("POST /api/auth/logout", 200, 0, None)
  /\ UNCHANGED <<accessCodes, accessCodeSeq, availabilities, availabilitySeq,
                 bookings, bookingSeq, sessions, reqs, areqs, mem>>

PostLogout(s) ==
  /\ UNCHANGED mem
  /\ /\ sessions' = [sessions EXCEPT ![s] = NoUser]
     /\ resp' = Answer("POST /api/auth/logout", 200, 0, None)
     /\ UNCHANGED <<accessCodes, accessCodeSeq, availabilities, availabilitySeq,
                    bookings, bookingSeq, reqs, areqs>>

(* --------------------------- GET /api/auth/me -------------------------- *)
\* answers with req.session.user, 401 when there is none
GetAuthMe(s) ==
  /\ UNCHANGED mem
  /\ LET user == sessions[s]
     IN /\ resp' = IF user = NoUser THEN Answer("GET /api/auth/me", 401, 0, None)
                    ELSE [op |-> "GET /api/auth/me", status |-> 200, id |-> user.id,
                          code |-> user.code, user |-> user]
        /\ UNCHANGED <<accessCodes, accessCodeSeq, availabilities, availabilitySeq,
                       bookings, bookingSeq, sessions, reqs, areqs>>

(* --------------------------- POST /api/access-codes -------------------- *)
\* a route that skipped the duplicate check
ExistingCodeUnchecked(code) == FALSE

\* the route's duplicate check: storage.getAccessCode(req.body.code) found one
ExistingCode(code) == getAccessCode(code) /= {}

\* gates, validateRequest(insertAccessCodeSchema), then the duplicate check
PostAccessCodes(r, s, body) ==
  /\ UNCHANGED mem
  /\ LET gate == Gate(sessions[s], {"admin"})
     IN /\ areqs[r].pc = "idle"
        /\ IF gate /= 0
           THEN /\ resp' = Answer("POST /api/access-codes", gate, 0, None)
                /\ UNCHANGED areqs
           ELSE IF body.role \notin Roles
           THEN /\ resp' = Answer("POST /api/access-codes", 400, 0, body.code)
                /\ UNCHANGED areqs
           ELSE IF ExistingCode(body.code)
           THEN /\ resp' = Answer("POST /api/access-codes", 400, 0, body.code)
                /\ UNCHANGED areqs
           ELSE /\ areqs' = [areqs EXCEPT ![r] =
                               [AuthIdle EXCEPT !.op = "createAccessCode",
                                                !.pc = "insert", !.body = body,
                                                !.user = sessions[s]]]
                /\ UNCHANGED resp
        /\ UNCHANGED <<accessCodes, accessCodeSeq, availabilities, availabilitySeq,
                       bookings, bookingSeq, sessions, reqs>>

\* storage.createAccessCode(req.body): the INSERT, 201 or the catch's 500
PostAccessCodesInsert(r) ==
  /\ UNCHANGED mem
  /\ LET me == areqs[r]
         id == accessCodeSeq + 1
     IN /\ me.op = "createAccessCode" /\ me.pc = "insert"
        /\ areqs' = [areqs EXCEPT ![r] = AuthIdle]
        /\ IF createAccessCodeThrows(me.body)
           THEN /\ resp' = Answer("POST /api/access-codes", 500, 0, me.body.code)
                /\ UNCHANGED <<accessCodes, accessCodeSeq>>
           ELSE /\ id <= MaxCodes
                /\ accessCodes' = [i \in DOMAIN accessCodes \cup {id} |->
                                     IF i = id THEN createAccessCodeRow(me.body, id)
                                     ELSE accessCodes[i]]
                /\ accessCodeSeq' = id
                /\ resp' = Answer("POST /api/access-codes", 201, id, me.body.code)
        /\ UNCHANGED <<availabilities, availabilitySeq, bookings, bookingSeq,
                       sessions, reqs>>

(* --------------------------- PATCH /api/access-codes/:id --------------- *)
PatchAccessCodes(s, id, u) ==
  /\ UNCHANGED mem
  /\ LET gate == Gate(sessions[s], {"admin"})
     IN /\ IF gate /= 0
           THEN /\ resp' = Answer("PATCH /api/access-codes", gate, 0, None)
                /\ UNCHANGED accessCodes
           ELSE IF ~updateAccessCodeOk(id, u)
           THEN /\ resp' = Answer("PATCH /api/access-codes", 404, id, u.code)
                /\ UNCHANGED accessCodes
           ELSE /\ accessCodes' = [accessCodes EXCEPT
                                     ![id] = updateAccessCodeRow(accessCodes[id], u)]
                /\ resp' = Answer("PATCH /api/access-codes", 200, id, u.code)
        /\ UNCHANGED <<accessCodeSeq, availabilities, availabilitySeq,
                       bookings, bookingSeq, sessions, reqs, areqs>>

(* --------------------------- DELETE /api/access-codes/:id -------------- *)
DeleteAccessCodes(s, id) ==
  /\ UNCHANGED mem
  /\ LET gate == Gate(sessions[s], {"admin"})
     IN /\ IF gate /= 0
           THEN /\ resp' = Answer("DELETE /api/access-codes", gate, 0, None)
                /\ UNCHANGED accessCodes
           ELSE /\ accessCodes' = deleteAccessCode(id)
                /\ resp' = Answer("DELETE /api/access-codes",
                                  IF id \in DOMAIN accessCodes THEN 200 ELSE 404,
                                  id, None)
        /\ UNCHANGED <<accessCodeSeq, availabilities, availabilitySeq,
                       bookings, bookingSeq, sessions, reqs, areqs>>

(* --------------------------- GET /api/bookings ------------------------- *)
\* requireAuth, then storage.listBookingsByUser(req.session.user.code)
GetBookings(s) ==
  /\ UNCHANGED mem
  /\ LET user == sessions[s]
     IN /\ resp' = IF ~requireAuth(user) THEN Answer("GET /api/bookings", 401, 0, None)
                    ELSE [op |-> "GET /api/bookings", status |-> 200, id |-> 0,
                          code |-> user.code, rows |-> listBookingsByUser(user.code)]
        /\ UNCHANGED <<accessCodes, accessCodeSeq, availabilities, availabilitySeq,
                       bookings, bookingSeq, sessions, reqs, areqs>>

(* --------------------------- GET /api/access-codes --------------------- *)
GetAccessCodes(s) ==
  /\ UNCHANGED mem
  /\ LET gate == Gate(sessions[s], {"admin"})
     IN /\ resp' = IF gate /= 0 THEN Answer("GET /api/access-codes", gate, 0, None)
                    ELSE [op |-> "GET /api/access-codes", status |-> 200, id |-> 0,
                          code |-> None, rows |-> listAccessCodes]
        /\ UNCHANGED <<accessCodes, accessCodeSeq, availabilities, availabilitySeq,
                       bookings, bookingSeq, sessions, reqs, areqs>>

(* --------------------------- GET /api/admin/stats ---------------------- *)
\* accessCodes.filter(code => code.role === role && code.active).length
ActiveCount(role) ==
  Cardinality({i \in listAccessCodes :
                 accessCodes[i].role = role /\ accessCodes[i].active})

\* a filter that counts the bookings of every status
ConfirmedBookingsAnyStatus(a) == Cardinality(listBookingsByAvailability(a))

\* bookings.filter(b => b.status === "confirmed").length for the rows
\* listBookingsByAvailability(a) returns
ConfirmedBookings(a) ==
  Cardinality({b \in listBookingsByAvailability(a) :
                 bookings[b].status = "confirmed"})

\* res.json({adminCount, embasaCount, sacCount, activeSchedules})
StatsAnswer(stats, activeBookings) ==
  [op |-> "GET /api/admin/stats", status |-> 200, id |-> 0, code |-> None,
   adminCount |-> stats.adminCount, embasaCount |-> stats.embasaCount,
   sacCount |-> stats.sacCount, activeSchedules |-> activeBookings]

\* the gates, then await storage.listAccessCodes(); the three counts are
\* computed from the rows this read returned
GetAdminStats(r, s) ==
  /\ UNCHANGED mem
  /\ LET gate == Gate(sessions[s], {"admin"})
     IN /\ areqs[r].pc = "idle"
        /\ IF gate /= 0
           THEN /\ resp' = Answer("GET /api/admin/stats", gate, 0, None)
                /\ UNCHANGED areqs
           ELSE /\ areqs' = [areqs EXCEPT ![r] =
                               [AuthIdle EXCEPT
                                  !.op = "stats", !.pc = "availabilities",
                                  !.user = sessions[s],
                                  !.stats = [adminCount |-> ActiveCount("admin"),
                                             embasaCount |-> ActiveCount("embasa"),
                                             sacCount |-> ActiveCount("sac")]]]
                /\ UNCHANGED resp
        /\ UNCHANGED <<accessCodes, accessCodeSeq, availabilities, availabilitySeq,
                       bookings, bookingSeq, sessions, reqs>>

\* await storage.listAvailabilities(); with no availability the loop is
\* skipped and the handler answers
GetAdminStatsAvailabilities(r) ==
  /\ UNCHANGED mem
  /\ LET me == areqs[r]
     IN /\ me.op = "stats" /\ me.pc = "availabilities"
        /\ IF DOMAIN availabilities = {}
           THEN /\ resp' = StatsAnswer(me.stats, 0)
                /\ areqs' = [areqs EXCEPT ![r] = AuthIdle]
           ELSE /\ areqs' = [areqs EXCEPT ![r] =
                               [me EXCEPT !.pc = "bookings",
                                          !.todo = DOMAIN availabilities]]
                /\ UNCHANGED resp
        /\ UNCHANGED <<accessCodes, accessCodeSeq, availabilities, availabilitySeq,
                       bookings, bookingSeq, sessions, reqs>>

\* one turn of the loop: await storage.listBookingsByAvailability(a) for the
\* next availability of the list (rows of equal date and start_time come in
\* no fixed order); after the last one the handler answers
GetAdminStatsBookings(r) ==
  /\ UNCHANGED mem
  /\ LET me == areqs[r]
     IN /\ me.op = "stats" /\ me.pc = "bookings"
        /\ \E a \in me.todo :
             LET n == me.activeBookings + ConfirmedBookings(a)
             IN IF me.todo = {a}
                THEN /\ resp' = StatsAnswer(me.stats, n)
                     /\ areqs' = [areqs EXCEPT ![r] = AuthIdle]
                ELSE /\ areqs' = [areqs EXCEPT ![r] =
                                    [me EXCEPT !.todo = me.todo \ {a},
                                               !.activeBookings = n]]
                     /\ UNCHANGED resp
        /\ UNCHANGED <<accessCodes, accessCodeSeq, availabilities, availabilitySeq,
                       bookings, bookingSeq, sessions, reqs>>

(* ------------------- the booking engine: SpecBooking ------------------- *)
\* rows of access_codes behind the sessions of InitBooking
SeedCodes ==
  [i \in 1..4 |->
     [id |-> i,
      code |-> <<"ADM123456", "EMB000001", "EMB000002", "SAC000001">>[i],
      role |-> <<"admin", "embasa", "embasa", "sac">>[i],
      location |-> "Sede", active |-> TRUE]]

\* req.session.user as the login handler builds it from a row
SessionUser(row) == [id |-> row.id, code |-> row.code, role |-> row.role]

\* request bodies of POST /api/availabilities
RaceAvailabilityBodies ==
  [date : {"2024-06-10"}, startTime : {T0800}, endTime : {T1000},
   capacity : {1, 2}, remainingSlots : {0}]

\* request bodies of POST /api/bookings
BookingBodies ==
  [availabilityId : 1..MaxAvail, timeSlot : {T0800}, status : {None},
   createdBy : {"client"}]

\* two providers, a requester and a visitor are logged in; the tables of the
\* booking engine are empty
InitBooking ==
  /\ accessCodes = SeedCodes
  /\ accessCodeSeq = 4
  /\ availabilities = <<>>
  /\ availabilitySeq = 0
  /\ bookings = <<>>
  /\ bookingSeq = 0
  /\ sessions = [s \in SessionIds |->
                   CASE s = "s1" -> SessionUser(SeedCodes[2])
                     [] s = "s2" -> SessionUser(SeedCodes[3])
                     [] s = "s3" -> SessionUser(SeedCodes[4])
                     [] OTHER -> NoUser]
  /\ reqs = [r \in Req |-> Idle]
  /\ areqs = [r \in AuthReq |-> AuthIdle]
  /\ resp = [op |-> "none", status |-> 0, id |-> 0]
  /\ mem = MemStorageNew

\* one provider (s1) publishes and deletes, one requester (s3) books; every
\* request may be suspended at each of its awaits
NextBooking ==
  \/ \E body \in RaceAvailabilityBodies : PostAvailabilities("s1", body)
  \/ \E r \in Req, id \in 1..MaxAvail : DeleteAvailabilities(r, "s1", id)
  \/ \E r \in Req : DeleteAvailabilitiesDelete(r)
  \/ \E r \in Req, body \in BookingBodies : PostBookings(r, "s3", body)
  \/ \E r \in Req : CreateBookingGet(r)
  \/ \E r \in Req : CreateBookingInsert(r)
  \/ \E r \in Req : CreateBookingUpdate(r)

SpecBooking == InitBooking /\ [][NextBooking]_vars

(* --------------- availability creation: SpecAvailability --------------- *)
\* slots the requests of SpecAvailability may use
MaxSoloReq == 1

T1200 == <<12, 0>>

\* request bodies of POST /api/availabilities: any capacity the route's
\* `!capacity || isNaN` lets through or stops, with and without a
\* remainingSlots of the client's own
AvailabilityBodies ==
  [date : {"2024-06-10"}, startTime : {T0800}, endTime : {T1000, T1200},
   capacity : {-1, 0, 2}, remainingSlots : {0, 5}]

\* a provider (s1), a requester (s3) and a visitor (s4) each try every route
AvailabilitySessions == {"s1", "s3", "s4"}

NextAvailability ==
  \/ \E s \in AvailabilitySessions, body \in AvailabilityBodies :
       PostAvailabilities(s, body)
  \/ \E r \in 1..MaxSoloReq, s \in AvailabilitySessions, id \in 1..MaxAvail :
       DeleteAvailabilities(r, s, id)
  \/ \E r \in 1..MaxSoloReq : DeleteAvailabilitiesDelete(r)
  \/ \E r \in 1..MaxSoloReq, s \in AvailabilitySessions, body \in BookingBodies :
       PostBookings(r, s, body)
  \/ \E r \in 1..MaxSoloReq : CreateBookingGet(r)
  \/ \E r \in 1..MaxSoloReq : CreateBookingInsert(r)
  \/ \E r \in 1..MaxSoloReq : CreateBookingUpdate(r)

SpecAvailability == InitBooking /\ [][NextAvailability]_vars

(* ------------------- bookings that run one at a time ------------------ *)
\* no createBooking or delete is suspended at an await
Quiet == \A r \in Req : reqs[r].pc \in {"idle", "done"}

\* the provider s1 publishes, the requester s3 books; a request is only
\* sent once the one before it has answered
NextSequential ==
  \/ \E body \in RaceAvailabilityBodies : PostAvailabilities("s1", body)
  \/ \E r \in Req, body \in BookingBodies : Quiet /\ PostBookings(r, "s3", body)
  \/ \E r \in Req : CreateBookingGet(r)
  \/ \E r \in Req : CreateBookingInsert(r)
  \/ \E r \in Req : CreateBookingUpdate(r)

SpecSequential == InitBooking /\ [][NextSequential]_vars

(* ------------- bookings with bodies of the client's choosing ----------- *)
\* request bodies of POST /api/bookings with and without a status and a
\* createdBy of the client's own, for a time inside and one outside the
\* published span 08:00-10:00
AnyBookingBodies ==
  [availabilityId : 1..MaxAvail, timeSlot : {T0800, T1200},
   status : {None, "cancelled"}, createdBy : {"EMB000001"}]

\* request bodies of POST /api/availabilities that name another provider
\* as their creator
ForgedAvailabilityBodies ==
  [date : {"2024-06-10"}, startTime : {T0800}, endTime : {T1000},
   capacity : {1, 2}, remainingSlots : {0}, createdBy : {"EMB000002"}]

\* the sessions that book and list: a provider, a requester and a visitor
PostSessions == {"s1", "s3", "s4"}

\* the provider s1 publishes 08:00-10:00, every session books and lists
NextPosts ==
  \/ \E body \in ForgedAvailabilityBodies : PostAvailabilities("s1", body)
  \/ \E r \in 1..MaxSoloReq, s \in PostSessions, body \in AnyBookingBodies :
       PostBookings(r, s, body)
  \/ \E r \in 1..MaxSoloReq : CreateBookingGet(r)
  \/ \E r \in 1..MaxSoloReq : CreateBookingInsert(r)
  \/ \E r \in 1..MaxSoloReq : CreateBookingUpdate(r)
  \/ \E s \in PostSessions : GetBookings(s)

SpecPosts == InitBooking /\ [][NextPosts]_vars

(* ------------------ providers and spans: SpecProviders ----------------- *)
T0830 == <<8, 30>>
T0900 == <<9, 0>>
T1100 == <<11, 0>>
T1101 == <<11, 1>>

\* request bodies of POST /api/availabilities that start at 09:00 and end
\* before, at, up to two hours after and more than two hours after the start
SpanBodies ==
  [date : {"2024-06-10"}, startTime : {T0900},
   endTime : {T0830, T0900, T1100, T1101}, capacity : {1}, remainingSlots : {0}]

\* the two providers of InitBooking
ProviderSessions == {"s1", "s2"}

\* both providers publish and delete
NextProviders ==
  \/ \E s \in ProviderSessions, body \in SpanBodies : PostAvailabilities(s, body)
  \/ \E r \in 1..MaxSoloReq, s \in ProviderSessions, id \in 1..MaxAvail :
       DeleteAvailabilities(r, s, id)
  \/ \E r \in 1..MaxSoloReq : DeleteAvailabilitiesDelete(r)

SpecProviders == InitBooking /\ [][NextProviders]_vars

(* ------------------- access-code table: SpecAccess --------------------- *)
\* the row initializeTursoDb seeds
SeedAdmin ==
  [id |-> 1, code |-> "ADM123456", role |-> "admin", location |-> "Sede",
   active |-> TRUE]

CodeStrings == {"ADM123456", "SAC000001"}

\* request bodies of POST /api/access-codes (`active` is optional)
AccessCodeBodies ==
  [code : CodeStrings, role : {"sac"}, location : {"Sede"},
   active : {"true", "false", "undefined"}]

\* request bodies of PATCH /api/access-codes/:id: `set` holds the fields given
NoUpdates == [set |-> {}, code |-> None, role |-> None, location |-> None,
              active |-> FALSE]

AccessCodeUpdates ==
  {NoUpdates}
    \cup {[NoUpdates EXCEPT !.set = {"code"}, !.code = c] : c \in CodeStrings}
    \cup {[NoUpdates EXCEPT !.set = {"active"}, !.active = b] : b \in BOOLEAN}

\* the database as initializeTursoDb leaves it; the seeded admin has logged
\* in on s1, nobody on the other sessions
InitAccess ==
  /\ accessCodes = [i \in {1} |-> SeedAdmin]
  /\ accessCodeSeq = 1
  /\ availabilities = <<>>
  /\ availabilitySeq = 0
  /\ bookings = <<>>
  /\ bookingSeq = 0
  /\ sessions = [s \in SessionIds |->
                   IF s = "s1" THEN SessionUser(SeedAdmin) ELSE NoUser]
  /\ reqs = [r \in Req |-> Idle]
  /\ areqs = [r \in AuthReq |-> AuthIdle]
  /\ resp = [op |-> "none", status |-> 0, id |-> 0]
  /\ mem = MemStorageNew

\* the admin session s1 creates, updates and deletes codes
NextAccess ==
  \/ \E r \in AuthReq, body \in AccessCodeBodies : PostAccessCodes(r, "s1", body)
  \/ \E r \in AuthReq : PostAccessCodesInsert(r)
  \/ \E id \in 1..MaxCodes, u \in AccessCodeUpdates : PatchAccessCodes("s1", id, u)
  \/ \E id \in 1..MaxCodes : DeleteAccessCodes("s1", id)

SpecAccess == InitAccess /\ [][NextAccess]_vars

(* ------------------------- login: SpecLogin ---------------------------- *)
\* codes the admin issues in SpecLogin
LoginCodeBodies ==
  [code : {"SAC000001"}, role : {"sac"}, location : {"Sede"},
   active : {"true", "false"}]

\* PATCH bodies that deactivate or reactivate a code
ActiveUpdates ==
  {[NoUpdates EXCEPT !.set = {"active"}, !.active = b] : b \in BOOLEAN}

\* the database as initializeTursoDb leaves it, and no session logged in
InitLogin ==
  /\ accessCodes = [i \in {1} |-> SeedAdmin]
  /\ accessCodeSeq = 1
  /\ availabilities = <<>>
  /\ availabilitySeq = 0
  /\ bookings = <<>>
  /\ bookingSeq = 0
  /\ sessions = [s \in SessionIds |-> NoUser]
  /\ reqs = [r \in Req |-> Idle]
  /\ areqs = [r \in AuthReq |-> AuthIdle]
  /\ resp = [op |-> "none", status |-> 0, id |-> 0]
  /\ mem = MemStorageNew

\* the sessions that call the routes in SpecLogin
LoginSessions == {"s1", "s2"}

NextLogin ==
  \/ \E r \in AuthReq, s \in LoginSessions, c \in CodeStrings \cup {None} :
       PostLogin(r, s, c)
  \/ \E r \in AuthReq : LoginSave(r)
  \/ \E s \in LoginSessions : PostLogout(s)
  \/ \E r \in AuthReq, s \in LoginSessions, body \in LoginCodeBodies :
       PostAccessCodes(r, s, body)
  \/ \E r \in AuthReq : PostAccessCodesInsert(r)
  \/ \E s \in LoginSessions, id \in 1..MaxCodes, u \in ActiveUpdates :
       PatchAccessCodes(s, id, u)
  \/ \E s \in LoginSessions, id \in 1..MaxCodes : DeleteAccessCodes(s, id)

SpecLogin == InitLogin /\ [][NextLogin]_vars

(* ------------- sessions and the rows they were made from -------------- *)
\* PATCH bodies that deactivate or reactivate a code, or give it a role
SnapshotUpdates ==
  ActiveUpdates
    \cup {[NoUpdates EXCEPT !.set = {"role"}, !.role = ro] : ro \in {"admin", "sac"}}

\* the row the sessions of SpecSnapshot are made from: the seeded admin
SnapshotIds == {1}

\* the admin code logs in on s1 and s2, logs out, asks who it is, and
\* deactivates, re-roles and deletes its own row
NextSnapshot ==
  \/ \E r \in AuthReq, s \in LoginSessions : PostLogin(r, s, "ADM123456")
  \/ \E r \in AuthReq : LoginSave(r)
  \/ \E s \in LoginSessions : PostLogout(s)
  \/ \E s \in LoginSessions : GetAuthMe(s)
  \/ \E s \in LoginSessions, id \in SnapshotIds, u \in SnapshotUpdates :
       PatchAccessCodes(s, id, u)
  \/ \E s \in LoginSessions, id \in SnapshotIds : DeleteAccessCodes(s, id)

SpecSnapshot == InitLogin /\ [][NextSnapshot]_vars

(* ----------------------- the admin's statistics ----------------------- *)
\* request slots of the bookings and deletes that run beside the statistics
MaxStatsReq == 2

\* request bodies of POST /api/availabilities in SpecStats
StatsAvailabilityBodies ==
  [date : {"2024-06-10"}, startTime : {T0800}, endTime : {T1000},
   capacity : {2}, remainingSlots : {0}]

\* the availability that is booked and deleted: the first one published
StatsAvailabilityIds == {1}

\* request bodies of POST /api/bookings, with and without a status
StatsBookingBodies ==
  [availabilityId : StatsAvailabilityIds, timeSlot : {T0800},
   status : {None, "cancelled"}, createdBy : {"client"}]

\* the admin sends one statistics request at a time
StatsReq == {1}

\* the row the admin deactivates and reactivates: SAC000001
StatsCodeIds == {4}

\* the seeded rows; the admin on s1, a provider on s2, a requester on s3
InitStats ==
  /\ accessCodes = SeedCodes
  /\ accessCodeSeq = 4
  /\ availabilities = <<>>
  /\ availabilitySeq = 0
  /\ bookings = <<>>
  /\ bookingSeq = 0
  /\ sessions = [s \in SessionIds |->
                   CASE s = "s1" -> SessionUser(SeedCodes[1])
                     [] s = "s2" -> SessionUser(SeedCodes[2])
                     [] s = "s3" -> SessionUser(SeedCodes[4])
                     [] OTHER -> NoUser]
  /\ reqs = [r \in Req |-> Idle]
  /\ areqs = [r \in AuthReq |-> AuthIdle]
  /\ resp = [op |-> "none", status |-> 0, id |-> 0]
  /\ mem = MemStorageNew

\* the provider publishes and deletes, the requester books, the admin
\* switches a code off and on and asks for the statistics; every handler
\* may be suspended at each of its awaits
NextStats ==
  \/ \E body \in StatsAvailabilityBodies : PostAvailabilities("s2", body)
  \/ \E r \in 1..MaxStatsReq, id \in StatsAvailabilityIds :
       DeleteAvailabilities(r, "s2", id)
  \/ \E r \in 1..MaxStatsReq : DeleteAvailabilitiesDelete(r)
  \/ \E r \in 1..MaxStatsReq, body \in StatsBookingBodies :
       PostBookings(r, "s3", body)
  \/ \E r \in 1..MaxStatsReq : CreateBookingGet(r)
  \/ \E r \in 1..MaxStatsReq : CreateBookingInsert(r)
  \/ \E r \in 1..MaxStatsReq : CreateBookingUpdate(r)
  \/ \E id \in StatsCodeIds, u \in ActiveUpdates : PatchAccessCodes("s1", id, u)
  \/ \E r \in StatsReq : GetAdminStats(r, "s1")
  \/ \E r \in StatsReq : GetAdminStatsAvailabilities(r)
  \/ \E r \in StatsReq : GetAdminStatsBookings(r)

SpecStats == InitStats /\ [][NextStats]_vars

(* --------------------------- initializeTursoDb ------------------------- *)
\* SELECT * FROM access_codes WHERE code = 'ADM123456' AND role = 'admin'
\* (the CREATE TABLE IF NOT EXISTS statements before it change no row);
\* with a row found, initialization is over (200 stands for its return)
InitializeTursoDb(r) ==
  /\ UNCHANGED mem
  /\ LET checkAdmin == {i \in DOMAIN accessCodes :
                          /\ accessCodes[i].code = "ADM123456"
                          /\ accessCodes[i].role = "admin"}
     IN /\ areqs[r].pc = "idle"
        /\ IF checkAdmin /= {}
           THEN /\ resp' = Answer("initializeTursoDb", 200, 0, "ADM123456")
                /\ UNCHANGED areqs
           ELSE /\ areqs' = [areqs EXCEPT ![r] =
                               [AuthIdle EXCEPT !.op = "initializeTursoDb",
                                                !.pc = "insert"]]
                /\ UNCHANGED resp
        /\ UNCHANGED <<accessCodes, accessCodeSeq, availabilities, availabilitySeq,
                       bookings, bookingSeq, sessions, reqs>>

\* INSERT INTO access_codes ... VALUES ('ADM123456', 'admin', 'Sede', true);
\* the UNIQUE on code makes it throw, and the catch rethrows (500 stands
\* for the throw)
InitializeTursoDbInsert(r) ==
  /\ UNCHANGED mem
  /\ LET me == areqs[r]
         id == accessCodeSeq + 1
     IN /\ me.op = "initializeTursoDb" /\ me.pc = "insert"
        /\ areqs' = [areqs EXCEPT ![r] = AuthIdle]
        /\ IF UniqueViolation("ADM123456", 0)
           THEN /\ resp' = Answer("initializeTursoDb", 500, 0, "ADM123456")
                /\ UNCHANGED <<accessCodes, accessCodeSeq>>
           ELSE /\ id <= MaxCodes
                /\ accessCodes' = [i \in DOMAIN accessCodes \cup {id} |->
                                     IF i = id THEN [SeedAdmin EXCEPT !.id = id]
                                     ELSE accessCodes[i]]
                /\ accessCodeSeq' = id
                /\ resp' = Answer("initializeTursoDb", 200, id, "ADM123456")
        /\ UNCHANGED <<availabilities, availabilitySeq, bookings, bookingSeq,
                       sessions, reqs>>

\* a code the admin issues under the seeded admin's code string
SeedCodeBodies ==
  [code : {"ADM123456"}, role : {"sac"}, location : {"Sede"}, active : {"true"}]

\* the server initializes its database again and again while the admin on
\* s1 updates, deletes and issues codes
NextInit ==
  \/ \E r \in AuthReq : InitializeTursoDb(r)
  \/ \E r \in AuthReq : InitializeTursoDbInsert(r)
  \/ \E id \in 1..MaxCodes, u \in SnapshotUpdates : PatchAccessCodes("s1", id, u)
  \/ \E id \in 1..MaxCodes : DeleteAccessCodes("s1", id)
  \/ \E r \in AuthReq, body \in SeedCodeBodies : PostAccessCodes(r, "s1", body)
  \/ \E r \in AuthReq : PostAccessCodesInsert(r)

SpecInit == InitAccess /\ [][NextInit]_vars

(* -------------- the same IStorage calls on both stores ----------------- *)
\* calls bounded per table: ids handed out by either store stay below these
MaxStoreBookings == 2

\* what a call gave back: it threw, or returned a boolean, or returned rows
Outcome(throws, ok, rows) == [throws |-> throws, ok |-> ok, rows |-> rows]

\* the answers of the two stores to one call
StoreAnswer(op, turso, memory) ==
  [op |-> op, status |-> 0, id |-> 0, turso |-> turso, mem |-> memory]

StoreCodeBodies ==
  [code : CodeStrings, role : {"sac"}, location : {"Sede"}, active : {"true"}]

StoreAvailabilityBodies ==
  [date : {"2024-06-10"}, startTime : {T0800}, endTime : {T1000, T1100},
   capacity : {1}, remainingSlots : {1}, createdBy : {"ADM123456"}]

StoreBookingBodies ==
  [availabilityId : 1..MaxAvail, timeSlot : {T0800}, status : {"confirmed"},
   createdBy : {"SAC000001"}]

\* storage.createAccessCode(a) on TursoStorage and on MemStorage
CallCreateAccessCode(a) ==
  LET id == accessCodeSeq + 1
      mid == mem.accessCodeCurrentId
      m == MemCreateAccessCode(mem, a)
  IN /\ id <= MaxCodes /\ mid <= MaxCodes
     /\ mem' = m
     /\ IF createAccessCodeThrows(a)
        THEN /\ UNCHANGED <<accessCodes, accessCodeSeq>>
             /\ resp' = StoreAnswer("createAccessCode", Outcome(TRUE, FALSE, {}),
                                    Outcome(FALSE, TRUE, {m.accessCodes[mid]}))
        ELSE /\ accessCodes' = [i \in DOMAIN accessCodes \cup {id} |->
                                  IF i = id THEN createAccessCodeRow(a, id)
                                  ELSE accessCodes[i]]
             /\ accessCodeSeq' = id
             /\ resp' = StoreAnswer("createAccessCode",
                                    Outcome(FALSE, TRUE, {createAccessCodeRow(a, id)}),
                                    Outcome(FALSE, TRUE, {m.accessCodes[mid]}))
     /\ UNCHANGED <<availabilities, availabilitySeq, bookings, bookingSeq,
                    sessions, reqs, areqs>>

\* storage.deleteAccessCode(id): rowsAffected > 0 / the id was in the map
CallDeleteAccessCode(id) ==
  /\ accessCodes' = deleteAccessCode(id)
  /\ mem' = MemDeleteAccessCode(mem, id)
  /\ resp' = StoreAnswer("deleteAccessCode",
                         Outcome(FALSE, id \in DOMAIN accessCodes, {}),
                         Outcome(FALSE, id \in DOMAIN mem.accessCodes, {}))
  /\ UNCHANGED <<accessCodeSeq, availabilities, availabilitySeq, bookings,
                 bookingSeq, sessions, reqs, areqs>>

\* storage.getAccessCode(code): the first matching row, or undefined
CallGetAccessCode(code) ==
  /\ resp' = StoreAnswer("getAccessCode",
                         Outcome(FALSE, getAccessCode(code) /= {},
                                 {accessCodes[i] : i \in getAccessCode(code)}),
                         Outcome(FALSE, MemGetAccessCode(mem, code) /= {},
                                 {mem.accessCodes[i] : i \in MemGetAccessCode(mem, code)}))
  /\ UNCHANGED <<accessCodes, accessCodeSeq, availabilities, availabilitySeq,
                 bookings, bookingSeq, sessions, reqs, areqs, mem>>

\* storage.listAccessCodes()
CallListAccessCodes ==
  /\ resp' = StoreAnswer("listAccessCodes",
                         Outcome(FALSE, TRUE, {accessCodes[i] : i \in listAccessCodes}),
                         Outcome(FALSE, TRUE,
                                 {mem.accessCodes[i] : i \in DOMAIN mem.accessCodes}))
  /\ UNCHANGED <<accessCodes, accessCodeSeq, availabilities, availabilitySeq,
                 bookings, bookingSeq, sessions, reqs, areqs, mem>>

\* storage.createAvailability(a) on TursoStorage and on MemStorage
CallCreateAvailability(a) ==
  LET id == availabilitySeq + 1
      mid == mem.availabilityCurrentId
      m == MemCreateAvailability(mem, a)
  IN /\ id <= MaxAvail /\ mid <= MaxAvail
     /\ mem' = m
     /\ IF createAvailabilityThrows(a)
        THEN /\ UNCHANGED <<availabilities, availabilitySeq>>
             /\ resp' = StoreAnswer("createAvailability", Outcome(TRUE, FALSE, {}),
                                    Outcome(FALSE, TRUE, {m.availabilities[mid]}))
        ELSE /\ availabilities' = [i \in DOMAIN availabilities \cup {id} |->
                                     IF i = id THEN createAvailabilityRow(a, id)
                                     ELSE availabilities[i]]
             /\ availabilitySeq' = id
             /\ resp' = StoreAnswer("createAvailability",
                                    Outcome(FALSE, TRUE, {createAvailabilityRow(a, id)}),
                                    Outcome(FALSE, TRUE, {m.availabilities[mid]}))
     /\ UNCHANGED <<accessCodes, accessCodeSeq, bookings, bookingSeq,
                    sessions, reqs, areqs>>

\* storage.createBooking(b), run from its first statement to its return:
\* TursoStorage throws without an availability or without a slot left
CallCreateBooking(b) ==
  LET id == bookingSeq + 1
      mid == mem.bookingCurrentId
      m == MemCreateBooking(mem, b)
      aid == b.availabilityId
  IN /\ id <= MaxStoreBookings /\ mid <= MaxStoreBookings
     /\ mem' = m
     /\ IF ~HasAvailability(aid) \/ SlotsExhausted(getAvailability(aid))
        THEN /\ UNCHANGED <<availabilities, bookings, bookingSeq>>
             /\ resp' = StoreAnswer("createBooking", Outcome(TRUE, FALSE, {}),
                                    Outcome(FALSE, TRUE, {m.bookings[mid]}))
        ELSE /\ bookings' = [i \in DOMAIN bookings \cup {id} |->
                               IF i = id THEN createBookingRow(b, id)
                               ELSE bookings[i]]
             /\ bookingSeq' = id
             /\ availabilities' =
                  updateAvailability(aid,
                    DecrementedSlots(getAvailability(aid).remainingSlots))
             /\ resp' = StoreAnswer("createBooking",
                                    Outcome(FALSE, TRUE, {createBookingRow(b, id)}),
                                    Outcome(FALSE, TRUE, {m.bookings[mid]}))
     /\ UNCHANGED <<accessCodes, accessCodeSeq, availabilitySeq,
                    sessions, reqs, areqs>>

\* one caller, one call after the other, each made on both stores
NextStores ==
  \/ \E a \in StoreCodeBodies : CallCreateAccessCode(a)
  \/ \E id \in 1..MaxCodes : CallDeleteAccessCode(id)
  \/ \E code \in CodeStrings : CallGetAccessCode(code)
  \/ CallListAccessCodes
  \/ \E a \in StoreAvailabilityBodies : CallCreateAvailability(a)
  \/ \E b \in StoreBookingBodies : CallCreateBooking(b)

SpecStores == InitAccess /\ [][NextStores]_vars

(* ------------------ bookings of a deleted availability ----------------- *)
\* request bodies of POST /api/bookings for the first availability
OrphanBookingBodies ==
  [availabilityId : StatsAvailabilityIds, timeSlot : {T0800},
   status : {None}, createdBy : {"client"}]

\* the provider publishes and deletes, the requester books and lists its
\* bookings, the admin asks for the statistics
NextOrphans ==
  \/ \E body \in StatsAvailabilityBodies : PostAvailabilities("s2", body)
  \/ \E r \in 1..MaxStatsReq, id \in StatsAvailabilityIds :
       DeleteAvailabilities(r, "s2", id)
  \/ \E r \in 1..MaxStatsReq : DeleteAvailabilitiesDelete(r)
  \/ \E r \in 1..MaxStatsReq, body \in OrphanBookingBodies :
       PostBookings(r, "s3", body)
  \/ \E r \in 1..MaxStatsReq : CreateBookingGet(r)
  \/ \E r \in 1..MaxStatsReq : CreateBookingInsert(r)
  \/ \E r \in 1..MaxStatsReq : CreateBookingUpdate(r)
  \/ \E r \in StatsReq : GetAdminStats(r, "s1")
  \/ \E r \in StatsReq : GetAdminStatsAvailabilities(r)
  \/ \E r \in StatsReq : GetAdminStatsBookings(r)
  \/ GetBookings("s3")

SpecOrphans == InitStats /\ [][NextOrphans]_vars

(* ---------------- MemStorage: the availabilities of a month ------------ *)
\* new Date(s) for the date strings of MonthBodies, as <<year, month, day>>
\* (all of them midnights; the server's zone is taken to be UTC)
ParseDate(dateStr) ==
  CASE dateStr = "2024-05-31" -> <<2024, 5, 31>>
    [] dateStr = "2024-06-10" -> <<2024, 6, 10>>
    [] dateStr = "2024-06-20" -> <<2024, 6, 20>>
    [] dateStr = "2024-06-30" -> <<2024, 6, 30>>

\* the day new Date(year, month, 0) falls on: the last day of the month
LastDayOfMonth(year, month) ==
  IF month \in {4, 6, 9, 11} THEN 30
  ELSE IF month /= 2 THEN 31
  ELSE IF year % 4 = 0 /\ (year % 100 /= 0 \/ year % 400 = 0) THEN 29
  ELSE 28

\* d1 <= d2 on dates
DateLeq(d1, d2) ==
  \/ d1[1] < d2[1]
  \/ d1[1] = d2[1] /\ d1[2] < d2[2]
  \/ d1[1] = d2[1] /\ d1[2] = d2[2] /\ d1[3] <= d2[3]

\* Array.from(map.values()) restricted to the keys in S: a Map yields its
\* entries in the order they were inserted, and ids are handed out rising
RECURSIVE MapValues(_)
MapValues(S) ==
  IF S = {} THEN <<>>
  ELSE LET first == CHOOSE i \in S : \A j \in S : i <= j
       IN <<availabilities[first]>> \o MapValues(S \ {first})

\* MemStorage.getAvailabilitiesByMonth: the values of the map, filtered by
\* firstDay <= new Date(availability.date) <= lastDay, in the map's order
MemGetAvailabilitiesByMonth(year, month) ==
  LET firstDay == <<year, month, 1>>
      lastDay == <<year, month, LastDayOfMonth(year, month)>>
  IN MapValues({i \in DOMAIN availabilities :
                  /\ DateLeq(firstDay, ParseDate(availabilities[i].date))
                  /\ DateLeq(ParseDate(availabilities[i].date), lastDay)})

\* GET /api/availabilities?year=&month= over MemStorage: requireAuth, then
\* storage.getAvailabilitiesByMonth(parseInt(year), parseInt(month))
GetAvailabilitiesOfMonth(s, year, month) ==
  /\ UNCHANGED mem
  /\ /\ resp' = IF ~requireAuth(sessions[s])
                 THEN Answer("GET /api/availabilities", 401, 0, None)
                 ELSE [op |-> "GET /api/availabilities", status |-> 200, id |-> 0,
                       year |-> year, month |-> month,
                       rows |-> MemGetAvailabilitiesByMonth(year, month)]
     /\ UNCHANGED <<accessCodes, accessCodeSeq, availabilities, availabilitySeq,
                    bookings, bookingSeq, sessions, reqs, areqs>>

\* request bodies of POST /api/availabilities on the last day of May and on
\* three days of June
MonthBodies ==
  [date : {"2024-05-31", "2024-06-10", "2024-06-20", "2024-06-30"},
   startTime : {T0800, T0900}, endTime : {T1000}, capacity : {1},
   remainingSlots : {0}]

\* the months asked for
Months == {5, 6}

\* the provider s1 publishes; the requester s3 and a visitor s4 list a month
NextMonth ==
  \/ \E body \in MonthBodies : PostAvailabilities("s1", body)
  \/ \E s \in {"s3", "s4"}, month \in Months :
       GetAvailabilitiesOfMonth(s, 2024, month)

SpecMonth == InitBooking /\ [][NextMonth]_vars

(* ----------------------- the role gates: SpecGate ---------------------- *)
\* a code the admin issues in SpecGate
GateCodeBodies ==
  [code : {"EMB000003"}, role : {"embasa"}, location : {"Sede"}, active : {"true"}]

\* the admin has issued SAC000001; the admin is logged in on s1 and the
\* requester on s3
InitGateAdmin ==
  /\ accessCodes = [i \in {1, 2} |->
                      IF i = 1 THEN SeedAdmin
                      ELSE [id |-> 2, code |-> "SAC000001", role |-> "sac",
                            location |-> "Sede", active |-> TRUE]]
  /\ accessCodeSeq = 2
  /\ availabilities = <<>>
  /\ availabilitySeq = 0
  /\ bookings = <<>>
  /\ bookingSeq = 0
  /\ sessions = [s \in SessionIds |->
                   CASE s = "s1" -> SessionUser(SeedAdmin)
                     [] s = "s3" -> [id |-> 2, code |-> "SAC000001", role |-> "sac"]
                     [] OTHER -> NoUser]
  /\ reqs = [r \in Req |-> Idle]
  /\ areqs = [r \in AuthReq |-> AuthIdle]
  /\ resp = [op |-> "none", status |-> 0, id |-> 0]
  /\ mem = MemStorageNew

\* a provider is logged in on s2 and a requester on s3; the tables of the
\* booking engine are empty
InitGateLedger ==
  /\ accessCodes = SeedCodes
  /\ accessCodeSeq = 4
  /\ availabilities = <<>>
  /\ availabilitySeq = 0
  /\ bookings = <<>>
  /\ bookingSeq = 0
  /\ sessions = [s \in SessionIds |->
                   CASE s = "s2" -> SessionUser(SeedCodes[2])
                     [] s = "s3" -> SessionUser(SeedCodes[4])
                     [] OTHER -> NoUser]
  /\ reqs = [r \in Req |-> Idle]
  /\ areqs = [r \in AuthReq |-> AuthIdle]
  /\ resp = [op |-> "none", status |-> 0, id |-> 0]
  /\ mem = MemStorageNew

\* either the admin and a requester are logged in, or a provider and a
\* requester; in both cases one of the sessions carries no identity
InitGate == InitGateAdmin \/ InitGateLedger

\* the row PATCH and DELETE /api/access-codes/:id name in SpecGate: the
\* requester's
GateCodeIds == {2}

\* the sessions that call the routes in SpecGate
GateSessions == {"s1", "s2", "s3"}

\* the request body of POST /api/availabilities in SpecGate
GateAvailabilityBodies ==
  [date : {"2024-06-10"}, startTime : {T0800}, endTime : {T1000},
   capacity : {1}, remainingSlots : {0}]

\* every session tries every role-gated route
NextGate ==
  \/ \E s \in GateSessions, body \in GateAvailabilityBodies :
       PostAvailabilities(s, body)
  \/ \E r \in 1..MaxSoloReq, s \in GateSessions, id \in 1..MaxAvail :
       DeleteAvailabilities(r, s, id)
  \/ \E r \in 1..MaxSoloReq : DeleteAvailabilitiesDelete(r)
  \/ \E r \in 1..MaxSoloReq, s \in GateSessions, body \in BookingBodies :
       PostBookings(r, s, body)
  \/ \E r \in 1..MaxSoloReq : CreateBookingGet(r)
  \/ \E r \in 1..MaxSoloReq : CreateBookingInsert(r)
  \/ \E r \in 1..MaxSoloReq : CreateBookingUpdate(r)
  \/ \E r \in AuthReq, s \in GateSessions, body \in GateCodeBodies :
       PostAccessCodes(r, s, body)
  \/ \E r \in AuthReq : PostAccessCodesInsert(r)
  \/ \E s \in GateSessions, id \in GateCodeIds, u \in ActiveUpdates :
       PatchAccessCodes(s, id, u)
  \/ \E s \in GateSessions, id \in GateCodeIds : DeleteAccessCodes(s, id)
  \/ \E s \in GateSessions : GetAccessCodes(s)
  \/ \E r \in AuthReq, s \in GateSessions : GetAdminStats(r, s)
  \/ \E r \in AuthReq : GetAdminStatsAvailabilities(r)

SpecGate == InitGate /\ [][NextGate]_vars

(* ======================= properties of the booking engine ============== *)
BookingReqs(a) ==
  {r \in Req : reqs[r].op = "createBooking" /\ reqs[r].aid = a /\ reqs[r].status /= 404}

Succeeded(a) == {r \in BookingReqs(a) : reqs[r].pc = "done" /\ reqs[r].status = 201}

Refused(a) ==
  {r \in BookingReqs(a) : reqs[r].pc = "done" /\ reqs[r].status \in {400, 500}}

\* C1: when N createBooking requests against an Availability created with
\* remainingSlots = k (k < N) have all answered, exactly k of them succeeded,
\* the other N - k were refused, and remainingSlots is 0.
C1_ExactlyKSucceed ==
  \A a \in DOMAIN availabilities :
    LET k == availabilities[a].capacity
        N == Cardinality(BookingReqs(a))
    IN (k < N /\ \A r \in BookingReqs(a) : reqs[r].pc = "done")
         => /\ Cardinality(Succeeded(a)) = k
            /\ Cardinality(Refused(a)) = N - k
            /\ availabilities[a].remainingSlots = 0

\* C2: every stored Availability has 0 <= remainingSlots <= capacity.
C2_RemainingWithinCapacity ==
  \A a \in DOMAIN availabilities :
    /\ 0 <= availabilities[a].remainingSlots
    /\ availabilities[a].remainingSlots <= availabilities[a].capacity

\* no createBooking sits between its INSERT and its UPDATE
NoBookingInFlight == \A r \in Req : reqs[r].pc /= "update"

\* C3: for every stored Availability the number of Bookings that reference it
\* equals capacity - remainingSlots (read where it is most favourable to the
\* code: in the states where no createBooking is between its two writes).
C3_BookingsMatchDecrements ==
  NoBookingInFlight =>
    \A a \in DOMAIN availabilities :
      Cardinality(listBookingsByAvailability(a))
        = availabilities[a].capacity - availabilities[a].remainingSlots

\* C4: the remainingSlots of a stored Availability never increases from one
\* state to the next.
C4_RemainingNeverIncreases ==
  [][\A a \in DOMAIN availabilities \cap DOMAIN availabilities' :
       availabilities'[a].remainingSlots <= availabilities[a].remainingSlots]_vars

\* C5: a createBooking whose INSERT succeeded and whose UPDATE of
\* remainingSlots updated no row does not answer with the Booking (201).
C5_UndecrementedBookingIsAnError ==
  \A r \in Req :
    (reqs[r].op = "createBooking" /\ reqs[r].pc = "done"
       /\ reqs[r].bid /= 0 /\ ~reqs[r].updated)
      => reqs[r].status /= 201

(* ===================== properties of availability creation ============= *)
\* C6: an Availability created with capacity C is stored with
\* remainingSlots = C, whatever remainingSlots the request body carries.
C6_CreatedWithFullCapacity ==
  [][\A a \in DOMAIN availabilities' \ DOMAIN availabilities :
       /\ availabilities'[a].remainingSlots = availabilities'[a].capacity
       /\ availabilities'[a].capacity = resp'.body.capacity]_vars

\* an Availability has just been created from a body whose remainingSlots
\* differs from its capacity
C6_Witness ==
  /\ resp.op = "POST /api/availabilities"
  /\ resp.status = 201
  /\ resp.body.remainingSlots = 5
  /\ resp.body.capacity = 2
  /\ resp.id \in DOMAIN availabilities
  /\ availabilities[resp.id].remainingSlots = 2

(* ======================== properties of access codes =================== *)
\* some row holds the code with active = false
Deactivated(c) ==
  \E i \in DOMAIN accessCodes : accessCodes[i].code = c /\ ~accessCodes[i].active

\* the row that held the code has been deleted
Removed(c) == \A i \in DOMAIN accessCodes : accessCodes[i].code /= c

\* C7: while an access code is deactivated (or deleted), a login with its code
\* string is answered 401, is never accepted and leaves every session as it is.
C7_DeactivatedNeverAuthenticates ==
  [][\A c \in CodeStrings : (Deactivated(c) \/ Removed(c)) =>
       /\ \A r \in AuthReq :
            (areqs'[r] /= areqs[r] /\ areqs'[r].op = "login")
              => areqs'[r].user.code /= c
       /\ (resp' /= resp /\ areqs' = areqs /\ resp'.op = "POST /api/auth/login"
             /\ resp'.code = c)
            => (resp'.status = 401 /\ sessions' = sessions)]_vars

\* a login with the code of a deactivated row has just been answered 401
C7_Witness ==
  /\ resp.op = "POST /api/auth/login"
  /\ resp.status = 401
  /\ resp.code = "SAC000001"
  /\ Deactivated("SAC000001")

\* C8: deleting an AccessCode is a soft delete: no step removes a row from
\* what listAccessCodes returns, and after a DELETE answered 200 the row is
\* still listed, with active = false.
C8_DeleteIsSoft ==
  [][/\ \A i \in listAccessCodes : i \in listAccessCodes'
     /\ (resp' /= resp /\ resp'.op = "DELETE /api/access-codes" /\ resp'.status = 200)
          => (resp'.id \in listAccessCodes' /\ ~accessCodes'[resp'.id].active)]_vars

\* some active row holds the code
ExistingActive(c) ==
  \E i \in DOMAIN accessCodes : accessCodes[i].code = c /\ accessCodes[i].active

\* C9: a POST /api/access-codes whose code is that of an active AccessCode is
\* rejected (400, never 500, never 201), never reaches the INSERT, and leaves
\* access_codes unchanged.
C9_DuplicateRejected ==
  [][\A c \in CodeStrings : ExistingActive(c) =>
       /\ \A r \in AuthReq :
            (areqs'[r] /= areqs[r] /\ areqs'[r].op = "createAccessCode")
              => areqs'[r].body.code /= c
       /\ (resp' /= resp /\ areqs' = areqs /\ resp'.op = "POST /api/access-codes"
             /\ resp'.code = c)
            => (resp'.status = 400 /\ accessCodes' = accessCodes)]_vars

\* a creation of a code that an active row holds has just been answered 400
C9_Witness ==
  /\ resp.op = "POST /api/access-codes"
  /\ resp.status = 400
  /\ resp.code = "SAC000001"
  /\ ExistingActive("SAC000001")
  /\ Cardinality(DOMAIN accessCodes) = 2

\* C10: at most one AccessCode with active = true exists for any code string.
C10_OneActivePerCode ==
  \A i, j \in DOMAIN accessCodes :
    (i /= j /\ accessCodes[i].active /\ accessCodes[j].active)
      => accessCodes[i].code /= accessCodes[j].code

\* a PATCH that would have given row 2 the code of the active row 1 has just
\* been turned down
C10_Witness ==
  /\ resp.op = "PATCH /api/access-codes"
  /\ resp.status = 404
  /\ resp.id = 2
  /\ resp.code = "ADM123456"
  /\ 1 \in DOMAIN accessCodes /\ 2 \in DOMAIN accessCodes
  /\ accessCodes[1].active /\ accessCodes[2].active
  /\ accessCodes[1].code = "ADM123456"

(* ============================ properties of login ====================== *)
\* the last response is the 201 of a POST /api/access-codes and nothing has
\* touched access_codes since: the state right after a creation
JustCreated ==
  /\ resp.op = "POST /api/access-codes"
  /\ resp.status = 201
  /\ resp.id \in DOMAIN accessCodes

\* the login handler accepts the code and holds exactly the identity of the
\* row just created
AcceptedAsCreated(r) ==
  /\ areqs'[r].op = "login"
  /\ areqs'[r].user = [id |-> resp.id, code |-> accessCodes[resp.id].code,
                       role |-> accessCodes[resp.id].role]
  /\ accessCodes[resp.id].code = resp.code

\* C11 (as stated): a login made right after an AccessCode was created, with
\* its code string, is accepted with the code and role of the created row.
C11_CreatedThenAuthenticates ==
  [][JustCreated =>
       \A r \in AuthReq, s \in SessionIds :
         PostLogin(r, s, resp.code) => AcceptedAsCreated(r)]_vars

\* C11 (amended): a login made right after an AccessCode was created with
\* active = true, with its code string, is accepted with the code and role of
\* the created row.
C11_CreatedActiveThenAuthenticates ==
  [][(JustCreated /\ accessCodes[resp.id].active) =>
       \A r \in AuthReq, s \in SessionIds :
         PostLogin(r, s, resp.code) => AcceptedAsCreated(r)]_vars

\* a login with the code just created is suspended at req.session.save
C11_Witness ==
  /\ JustCreated
  /\ accessCodes[resp.id].active
  /\ \E r \in AuthReq :
       /\ areqs[r].op = "login"
       /\ areqs[r].user = SessionUser(accessCodes[resp.id])
       /\ areqs[r].user.role = "sac"

(* ========================= properties of the gates ===================== *)
\* the stored entities
Stored ==
  <<accessCodes, accessCodeSeq, availabilities, availabilitySeq,
    bookings, bookingSeq>>

\* the step answers `status` for `op` and does nothing else: no request is
\* admitted, no table and no session changes
TurnedAway(op, status) ==
  /\ resp'.op = op
  /\ resp'.status = status
  /\ Stored' = Stored
  /\ reqs' = reqs /\ areqs' = areqs /\ sessions' = sessions

\* what the gates owe a request of session s on a route open to `allowed`
GateRejects(s, allowed, op) ==
  /\ sessions[s] = NoUser => TurnedAway(op, 401)
  /\ (sessions[s] /= NoUser /\ sessions[s].role \notin allowed)
       => TurnedAway(op, 403)

\* C12: a request to a role-gated route from a session without identity is
\* answered 401, one from an identity whose role the route does not allow is
\* answered 403, and in both cases the handler does not run: nothing stored
\* changes and no request is admitted.
C12_GatesReject ==
  [][\A s \in GateSessions :
       /\ \A body \in GateAvailabilityBodies :
            PostAvailabilities(s, body)
              => GateRejects(s, {"embasa"}, "POST /api/availabilities")
       /\ \A r \in 1..MaxSoloReq, id \in 1..MaxAvail :
            DeleteAvailabilities(r, s, id)
              => GateRejects(s, {"embasa"}, "DELETE /api/availabilities")
       /\ \A r \in 1..MaxSoloReq, body \in BookingBodies :
            PostBookings(r, s, body)
              => GateRejects(s, {"sac"}, "POST /api/bookings")
       /\ \A r \in AuthReq, body \in GateCodeBodies :
            PostAccessCodes(r, s, body)
              => GateRejects(s, {"admin"}, "POST /api/access-codes")
       /\ \A id \in GateCodeIds, u \in ActiveUpdates :
            PatchAccessCodes(s, id, u)
              => GateRejects(s, {"admin"}, "PATCH /api/access-codes")
       /\ \A id \in GateCodeIds :
            DeleteAccessCodes(s, id)
              => GateRejects(s, {"admin"}, "DELETE /api/access-codes")
       /\ GetAccessCodes(s) => GateRejects(s, {"admin"}, "GET /api/access-codes")
       /\ \A r \in AuthReq :
            GetAdminStats(r, s)
              => GateRejects(s, {"admin"}, "GET /api/admin/stats")]_vars

\* a requester has just been refused the creation of an Availability, while
\* a provider's Availability is stored
C12_Witness ==
  /\ resp.op = "POST /api/availabilities"
  /\ resp.status = 403
  /\ sessions["s3"].role = "sac"
  /\ availabilities /= <<>>

\* C13: every step that stores or removes an Availability is the step of a
\* request whose session identity had the role embasa, every step that
\* stores a Booking that of a request of a sac identity, and every step that
\* changes access_codes or answers the statistics that of a request of an
\* admin identity.
C13_WritesByRole ==
  [][/\ (DOMAIN availabilities' \ DOMAIN availabilities /= {})
          => \E s \in GateSessions, body \in GateAvailabilityBodies :
               PostAvailabilities(s, body) /\ sessions[s].role = "embasa"
     /\ (DOMAIN availabilities \ DOMAIN availabilities' /= {})
          => \E r \in 1..MaxSoloReq :
               DeleteAvailabilitiesDelete(r) /\ reqs[r].user.role = "embasa"
     /\ bookings' /= bookings
          => \E r \in 1..MaxSoloReq :
               CreateBookingInsert(r) /\ reqs[r].user.role = "sac"
     /\ accessCodes' /= accessCodes
          => \/ \E r \in AuthReq :
                  PostAccessCodesInsert(r) /\ areqs[r].user.role = "admin"
             \/ \E s \in GateSessions, id \in GateCodeIds, u \in ActiveUpdates :
                  PatchAccessCodes(s, id, u) /\ sessions[s].role = "admin"
             \/ \E s \in GateSessions, id \in GateCodeIds :
                  DeleteAccessCodes(s, id) /\ sessions[s].role = "admin"
     /\ (resp' /= resp /\ resp'.op = "GET /api/admin/stats" /\ resp'.status = 200)
          => \E r \in AuthReq :
               /\ GetAdminStatsAvailabilities(r) \/ GetAdminStatsBookings(r)
               /\ areqs[r].user.role = "admin"]_vars

\* an Availability of a provider and a Booking of a requester are stored
C13_Witness ==
  /\ \E a \in DOMAIN availabilities : availabilities[a].createdBy = "EMB000001"
  /\ \E b \in DOMAIN bookings : bookings[b].createdBy = "SAC000001"

C16_LoginChangesOnlyItsSession ==
  [][/\ \A r \in AuthReq, s \in LoginSessions, c \in CodeStrings \cup {None} :
          PostLogin(r, s, c) => (Stored' = Stored /\ sessions' = sessions)
     /\ \A r \in AuthReq :
          LoginSave(r)
            => /\ Stored' = Stored
               /\ sessions'[areqs[r].sid] = areqs[r].user
               /\ \A s \in SessionIds \ {areqs[r].sid} : sessions'[s] = sessions[s]
     /\ (resp' /= resp /\ resp'.op = "POST /api/auth/login" /\ resp'.status /= 200)
          => sessions' = sessions]_vars

\* a login with a wrong code has just been turned down on a session that
\* carries the admin's identity
C16_Witness ==
  /\ resp.op = "POST /api/auth/login"
  /\ resp.status = 401
  /\ \E s \in LoginSessions : sessions[s].role = "admin"

(* ================== properties of the availability ledger ============== *)
\* endTime - startTime of a request body, in minutes
Span(body) == TotalMinutes(body.endTime) - TotalMinutes(body.startTime)

\* the step stores exactly one new Availability and leaves the others alone
StoresOne ==
  /\ resp'.id \notin DOMAIN availabilities
  /\ DOMAIN availabilities' = DOMAIN availabilities \cup {resp'.id}
  /\ \A a \in DOMAIN availabilities : availabilities'[a] = availabilities[a]

\* C17: a provider's createAvailability with a span of more than 120 minutes
\* is rejected and stores nothing; with startTime < endTime, a span of at
\* most 120 minutes and capacity >= 1 it succeeds and stores exactly one
\* Availability.
C17_SpanOverTwoHoursRejected ==
  [][\A s \in ProviderSessions, body \in SpanBodies :
       PostAvailabilities(s, body) =>
         /\ Span(body) > 120
              => /\ resp'.status = 500
                 /\ availabilities' = availabilities
                 /\ availabilitySeq' = availabilitySeq
         /\ (0 < Span(body) /\ Span(body) <= 120 /\ body.capacity >= 1)
              => (resp'.status = 201 /\ StoresOne)]_vars

\* a span of 121 minutes has just been rejected after one of 120 minutes was
\* stored
C17_Witness ==
  /\ resp.op = "POST /api/availabilities"
  /\ resp.status = 500
  /\ resp.body.endTime = T1101
  /\ \E a \in DOMAIN availabilities : availabilities[a].endTime = T1100

\* C18: every stored Availability has startTime < endTime (a createAvailability
\* with startTime >= endTime stores nothing).
C18_StartBeforeEnd ==
  \A a \in DOMAIN availabilities :
    TotalMinutes(availabilities[a].startTime) < TotalMinutes(availabilities[a].endTime)

\* C19: every stored Availability has capacity >= 1 (a createAvailability with
\* a capacity below 1 stores nothing).
C19_CapacityAtLeastOne ==
  \A a \in DOMAIN availabilities : availabilities[a].capacity >= 1

\* C20: a deleteAvailability for an id no Availability has ends with 404 and
\* one by a provider other than the creator with 403, neither removing nor
\* changing an Availability; an Availability is only ever removed by a delete
\* request of the provider whose code is its createdBy, and no stored
\* Availability is changed by a delete.
C20_OnlyCreatorDeletes ==
  [][/\ \A r \in 1..MaxSoloReq, s \in ProviderSessions, id \in 1..MaxAvail :
          DeleteAvailabilities(r, s, id) =>
            /\ availabilities' = availabilities
            /\ ~HasAvailability(id)
                 => (reqs'[r].pc = "done" /\ reqs'[r].status = 404)
            /\ (HasAvailability(id)
                  /\ availabilities[id].createdBy /= sessions[s].code)
                 => (reqs'[r].pc = "done" /\ reqs'[r].status = 403)
     /\ \A a \in DOMAIN availabilities \ DOMAIN availabilities' :
          \E r \in 1..MaxSoloReq :
            /\ DeleteAvailabilitiesDelete(r)
            /\ reqs[r].aid = a
            /\ reqs[r].user.code = availabilities[a].createdBy
     /\ \A r \in 1..MaxSoloReq :
          DeleteAvailabilitiesDelete(r)
            => \A a \in DOMAIN availabilities' :
                 availabilities'[a] = availabilities[a]]_vars

\* the other provider's delete of a stored Availability has ended with 403
C20_Witness ==
  \E r \in 1..MaxSoloReq :
    /\ reqs[r].op = "deleteAvailability"
    /\ reqs[r].pc = "done"
    /\ reqs[r].status = 403
    /\ reqs[r].user.code = "EMB000002"
    /\ HasAvailability(reqs[r].aid)
    /\ availabilities[reqs[r].aid].createdBy = "EMB000001"

(* ----------------------------- C21 ------------------------------------- *)
\* the request in slot r is a createBooking that has been refused
Failed(r) ==
  /\ reqs[r].op = "createBooking"
  /\ reqs[r].pc = "done"
  /\ reqs[r].status \in {400, 404, 500}

\* the step is the one in which the createBooking of slot r looks the
\* availability up: in the route (from "idle") or in createBooking ("get")
LooksUp(r) ==
  /\ reqs[r].pc \in {"idle", "get"}
  /\ reqs'[r] /= reqs[r]
  /\ reqs'[r].op = "createBooking"

\* C21: a createBooking that finds no stored Availability for its
\* availabilityId is refused as not found (404 from the route, the throw of
\* createBooking as 500), one that finds remainingSlots = 0 is refused as
\* exhausted (400, or the throw as 500); the refusing step stores no Booking
\* and leaves every remainingSlots as it was, the refused request has
\* inserted nothing, and a request that has answered never runs again.
C21_FailedBookingLeavesNoTrace ==
  [][\A r \in Req :
       /\ (LooksUp(r) /\ ~HasAvailability(reqs'[r].aid))
            => /\ reqs'[r].pc = "done"
               /\ reqs'[r].status = (IF reqs[r].pc = "idle" THEN 404 ELSE 500)
       /\ (LooksUp(r) /\ HasAvailability(reqs'[r].aid)
              /\ getAvailability(reqs'[r].aid).remainingSlots = 0)
            => /\ reqs'[r].pc = "done"
               /\ reqs'[r].status = (IF reqs[r].pc = "idle" THEN 400 ELSE 500)
       /\ (~Failed(r) /\ Failed(r)')
            => /\ reqs'[r].bid = 0
               /\ Stored' = Stored
       /\ Failed(r) => reqs'[r] = reqs[r]]_vars

\* after one booking was stored, a request was refused as not found and
\* another as exhausted, and the one Booking is all there is
C21_Witness ==
  /\ \E r \in Req : Failed(r) /\ reqs[r].status = 404
  /\ \E r \in Req : Failed(r) /\ reqs[r].status = 400
  /\ Cardinality(DOMAIN bookings) = 1
(* ----------------------------- C22 ------------------------------------- *)
\* C22: every Booking is stored with createdBy equal to the code of the
\* session identity that sent the request, whatever createdBy the request
\* body carries; likewise every Availability; and createdBy of a stored
\* Booking never changes.
C22_CreatedByIsTheSession ==
  [][/\ \A r \in Req :
          (reqs[r].pc = "idle" /\ reqs'[r] /= reqs[r])
            => \A s \in SessionIds, body \in AnyBookingBodies :
                 PostBookings(r, s, body) => reqs'[r].user = sessions[s]
     /\ \A r \in Req :
          (reqs[r].pc = "insert" /\ reqs'[r] /= reqs[r])
            => bookings'[bookingSeq'].createdBy = reqs[r].user.code
     /\ (availabilitySeq' /= availabilitySeq)
          => \A s \in SessionIds, body \in ForgedAvailabilityBodies :
               PostAvailabilities(s, body)
                 => availabilities'[availabilitySeq'].createdBy = sessions[s].code
     /\ \A b \in DOMAIN bookings :
          bookings'[b].createdBy = bookings[b].createdBy]_vars

\* the requester's Booking and the provider's Availability are stored under
\* their own codes although both bodies named EMB000001 / EMB000002
C22_Witness ==
  /\ \E b \in DOMAIN bookings : bookings[b].createdBy = "SAC000001"
  /\ \E a \in DOMAIN availabilities : availabilities[a].createdBy = "EMB000001"
  /\ \E r \in Req : reqs[r].pc = "done" /\ reqs[r].status = 201
(* ----------------------------- C23 ------------------------------------- *)
\* C23: every Booking is stored with status "confirmed", whatever status
\* the request body carries.
C23_StatusConfirmedAtCreation ==
  \A b \in DOMAIN bookings : bookings[b].status = "confirmed"

(* ----------------------------- C27 ------------------------------------- *)
\* C27: the timeSlot t of every stored Booking lies in the span of its
\* Availability: startTime <= t < endTime.
C27_TimeSlotWithinSpan ==
  \A b \in DOMAIN bookings :
    HasAvailability(bookings[b].availabilityId)
      => LET a == getAvailability(bookings[b].availabilityId)
             t == TotalMinutes(bookings[b].timeSlot)
         IN /\ TotalMinutes(a.startTime) <= t
            /\ t < TotalMinutes(a.endTime)
(* ----------------------------- C29 ------------------------------------- *)
\* C29: GET /api/bookings of an authenticated session answers with exactly
\* the stored Bookings whose createdBy is the code of that session's
\* identity: none of another creator, none of its own left out.
C29_OwnBookingsOnly ==
  [][(resp' /= resp /\ resp'.op = "GET /api/bookings" /\ resp'.status = 200)
       => \A s \in SessionIds :
            GetBookings(s)
              => /\ requireAuth(sessions[s])
                 /\ resp'.rows = {b \in DOMAIN bookings :
                                    bookings[b].createdBy = sessions[s].code}]_vars

\* the requester has listed its own Booking
C29_Witness ==
  /\ resp.op = "GET /api/bookings"
  /\ resp.status = 200
  /\ resp.code = "SAC000001"
  /\ resp.rows = DOMAIN bookings
  /\ resp.rows /= {}
(* ----------------------------- C28 ------------------------------------- *)
\* the smaller of two numbers
Least(m, n) == IF m <= n THEN m ELSE n

\* C28: when createBooking requests run one at a time, each successful one
\* lowers the remainingSlots of its Availability by exactly 1 and changes no
\* other Availability; of n requests against an Availability of capacity C
\* the first min(n, C) succeed and every later one is refused with 400, so
\* exactly C are accepted and the (C+1)-th is rejected.
C28_OneAtATimeIsExact ==
  /\ [][\A r \in Req :
          (reqs[r].pc = "update" /\ reqs'[r].pc = "done")
            => /\ reqs'[r].status = 201
               /\ DOMAIN availabilities' = DOMAIN availabilities
               /\ \A a \in DOMAIN availabilities :
                    availabilities'[a].remainingSlots =
                      availabilities[a].remainingSlots
                        - (IF a = reqs[r].aid THEN 1 ELSE 0)]_vars
  /\ [](Quiet =>
          \A a \in DOMAIN availabilities :
            /\ Cardinality(Succeeded(a)) =
                 Least(availabilities[a].capacity, Cardinality(BookingReqs(a)))
            /\ availabilities[a].remainingSlots =
                 availabilities[a].capacity - Cardinality(Succeeded(a))
            /\ \A r \in BookingReqs(a) \ Succeeded(a) : reqs[r].status = 400)

\* an Availability of capacity 2 has accepted two bookings and refused the
\* third
C28_Witness ==
  /\ Quiet
  /\ \E a \in DOMAIN availabilities :
       /\ availabilities[a].capacity = 2
       /\ availabilities[a].remainingSlots = 0
       /\ Cardinality(Succeeded(a)) = 2
       /\ \E r \in Refused(a) : reqs[r].status = 400
(* ----------------------------- C26 ------------------------------------- *)
\* C26: no step changes the role of an AccessCode that exists before and
\* after it.
C26_RoleNeverChanges ==
  [][\A i \in DOMAIN accessCodes \cap DOMAIN accessCodes' :
       accessCodes'[i].role = accessCodes[i].role]_vars

(* ----------------------------- C30 ------------------------------------- *)
\* the AccessCode a session's identity was made from is gone, inactive, or
\* has another role by now
RowMovedOn(user) ==
  \/ user.id \notin DOMAIN accessCodes
  \/ /\ user.id \in DOMAIN accessCodes
     /\ (~accessCodes[user.id].active \/ accessCodes[user.id].role /= user.role)

\* C30: a session's identity is a snapshot.  Only the end of a login on
\* that session and a logout of that session change it: deactivating,
\* deleting or re-roling an AccessCode leaves every session as it is.  A
\* session whose identity is an admin keeps passing the admin gates, and
\* GET /api/auth/me keeps answering with the identity as it was at login,
\* whatever has happened to the row since.
C30_SessionIsASnapshot ==
  [][/\ \A s \in SessionIds :
          sessions'[s] /= sessions[s]
            => \/ \E r \in AuthReq : LoginSave(r) /\ areqs[r].sid = s
               \/ PostLogout(s)
     /\ \A s \in SessionIds :
          (sessions[s] /= NoUser /\ resp' /= resp)
            => /\ \A id \in SnapshotIds, u \in SnapshotUpdates :
                    PatchAccessCodes(s, id, u)
                      => resp'.status = (IF sessions[s].role = "admin"
                                         THEN (IF updateAccessCodeOk(id, u)
                                               THEN 200 ELSE 404)
                                         ELSE 403)
               /\ \A id \in SnapshotIds :
                    DeleteAccessCodes(s, id)
                      => resp'.status = (IF sessions[s].role = "admin"
                                         THEN (IF id \in DOMAIN accessCodes
                                               THEN 200 ELSE 404)
                                         ELSE 403)
               /\ GetAuthMe(s) => resp'.user = sessions[s]]_vars

\* the admin's row has been deleted, deactivated or re-roled, and the
\* session made from it has since been answered by an admin route
C30_Witness ==
  /\ \E s \in SessionIds :
       /\ sessions[s] /= NoUser
       /\ sessions[s].role = "admin"
       /\ RowMovedOn(sessions[s])
  /\ resp.op \in {"PATCH /api/access-codes", "DELETE /api/access-codes"}
  /\ resp.status = 404
  /\ 1 \notin DOMAIN accessCodes
(* ----------------------------- C24 ------------------------------------- *)
\* the active AccessCodes of a role, as stored now
ActiveOfRole(role) ==
  Cardinality({i \in DOMAIN accessCodes :
                 accessCodes[i].role = role /\ accessCodes[i].active})

\* the stored Bookings with status "confirmed" among those in `among`
Confirmed(among) ==
  Cardinality({b \in among : bookings[b].status = "confirmed"})

\* the step is the one in which the statistics request of slot r answers
StatsAnswered(r) == areqs[r].op = "stats" /\ areqs'[r].pc = "idle"

\* C24 (as stated): the statistics answer carries the number of all stored
\* Bookings with status "confirmed".
C24_CountsAllStoredBookings ==
  [][\A r \in StatsReq :
       StatsAnswered(r)
         => resp'.activeSchedules = Confirmed(DOMAIN bookings)]_vars

\* C24 (amended): the statistics request reads access_codes first and
\* reports the active AccessCodes of each role as that read found them,
\* inactive ones excluded; it then lists the stored Availabilities and, for
\* each of them once, adds the Bookings that reference it and have status
\* "confirmed" as stored when that Availability's turn comes.  A Booking
\* whose Availability was not stored when the Availabilities were listed
\* is not counted, and the figure never exceeds the number of stored
\* confirmed Bookings.  No step of the request changes a stored entity or
\* a session.
C24_StatsCountWhatTheyRead ==
  [][\A r \in StatsReq :
       /\ (areqs[r].pc = "idle" /\ areqs'[r].op = "stats")
            => /\ areqs'[r].stats =
                    [adminCount |-> ActiveOfRole("admin"),
                     embasaCount |-> ActiveOfRole("embasa"),
                     sacCount |-> ActiveOfRole("sac")]
               /\ areqs'[r].activeBookings = 0
       /\ (areqs[r].op = "stats" /\ areqs[r].pc = "availabilities"
              /\ areqs'[r] /= areqs[r])
            => IF DOMAIN availabilities = {}
               THEN StatsAnswered(r) /\ resp'.activeSchedules = 0
               ELSE /\ areqs'[r].todo = DOMAIN availabilities
                    /\ areqs'[r].activeBookings = 0
                    /\ areqs'[r].stats = areqs[r].stats
       /\ (areqs[r].op = "stats" /\ areqs[r].pc = "bookings"
              /\ areqs'[r] /= areqs[r])
            => \E a \in areqs[r].todo :
                 LET n == areqs[r].activeBookings
                            + Confirmed({b \in DOMAIN bookings :
                                           bookings[b].availabilityId = a})
                 IN IF areqs[r].todo = {a}
                    THEN StatsAnswered(r) /\ resp'.activeSchedules = n
                    ELSE /\ areqs'[r].todo = areqs[r].todo \ {a}
                         /\ areqs'[r].activeBookings = n
                         /\ areqs'[r].stats = areqs[r].stats
       /\ StatsAnswered(r)
            => /\ resp'.status = 200
               /\ resp'.adminCount = areqs[r].stats.adminCount
               /\ resp'.embasaCount = areqs[r].stats.embasaCount
               /\ resp'.sacCount = areqs[r].stats.sacCount
               /\ resp'.activeSchedules <= Confirmed(DOMAIN bookings)
       /\ areqs'[r] /= areqs[r]
            => (Stored' = Stored /\ sessions' = sessions)]_vars

\* the statistics have answered 0 confirmed bookings and no active sac code
\* while a confirmed Booking of a deleted Availability is stored and the
\* code SAC000001 is switched off
C24_Witness ==
  /\ resp.op = "GET /api/admin/stats"
  /\ resp.status = 200
  /\ resp.activeSchedules = 0
  /\ resp.sacCount = 0
  /\ ~accessCodes[4].active
  /\ \E b \in DOMAIN bookings :
       /\ bookings[b].status = "confirmed"
       /\ ~HasAvailability(bookings[b].availabilityId)
  /\ Quiet
(* ----------------------------- C25 ------------------------------------- *)
\* (date, startTime) of row x is not after that of row y
NotAfter(x, y) ==
  \/ ParseDate(x.date) /= ParseDate(y.date)
       /\ DateLeq(ParseDate(x.date), ParseDate(y.date))
  \/ ParseDate(x.date) = ParseDate(y.date)
       /\ TotalMinutes(x.startTime) <= TotalMinutes(y.startTime)

\* C25: the answer to a listing of a month holds exactly the stored
\* Availabilities whose date falls in that month, each once, in ascending
\* order of date and then startTime.
C25_MonthListedInOrder ==
  (resp.op = "GET /api/availabilities" /\ resp.status = 200)
    => /\ {resp.rows[i] : i \in DOMAIN resp.rows}
           = {availabilities[a] : a \in
                {a \in DOMAIN availabilities :
                   /\ ParseDate(availabilities[a].date)[1] = resp.year
                   /\ ParseDate(availabilities[a].date)[2] = resp.month}}
       /\ \A i, j \in DOMAIN resp.rows :
            i < j => (resp.rows[i] /= resp.rows[j]
                       /\ NotAfter(resp.rows[i], resp.rows[j]))
(* ----------------------------- C31 ------------------------------------- *)
\* C31: whenever a Booking is inserted, its Availability is stored at that
\* moment: a createBooking that races with a delete either inserts before
\* the delete or fails and stores nothing.
C31_NoBookingIntoDeletedAvailability ==
  [][\A r \in Req :
       (reqs[r].pc = "insert" /\ reqs'[r].pc = "update")
         => HasAvailability(reqs[r].aid)]_vars
(* ----------------------------- C32 ------------------------------------- *)
\* the Bookings whose Availability is no longer stored
Orphans == {b \in DOMAIN bookings : ~HasAvailability(bookings[b].availabilityId)}

\* C32: the step of deleteAvailability removes the one Availability row and
\* nothing else: every Booking, also those that reference it, stays stored
\* with the same fields.  GET /api/bookings keeps returning such Bookings to
\* their creator.  The statistics list the Availabilities that are stored,
\* so no Booking of an Availability deleted before that listing is in the
\* loop, and with no Availability stored they answer 0 whatever Bookings
\* there are.
C32_DeleteLeavesBookings ==
  [][/\ \A r \in Req :
          (reqs[r].pc = "delete" /\ reqs'[r].pc = "done")
            => /\ bookings' = bookings
               /\ bookingSeq' = bookingSeq
               /\ accessCodes' = accessCodes
               /\ DOMAIN availabilities' = DOMAIN availabilities \ {reqs[r].aid}
               /\ \A a \in DOMAIN availabilities' :
                    availabilities'[a] = availabilities[a]
     /\ (resp' /= resp /\ resp'.op = "GET /api/bookings" /\ resp'.status = 200)
          => \A b \in DOMAIN bookings :
               bookings[b].createdBy = resp'.code => b \in resp'.rows
     /\ \A r \in StatsReq :
          (areqs[r].op = "stats" /\ areqs[r].pc = "availabilities"
             /\ areqs'[r] /= areqs[r])
            => /\ \A b \in Orphans :
                    bookings[b].availabilityId \notin areqs'[r].todo
               /\ DOMAIN availabilities = {} => resp'.activeSchedules = 0]_vars

\* the requester has listed its bookings after the Availability of one of
\* them was deleted, and the Booking is in the list, confirmed as before
C32_Witness ==
  /\ resp.op = "GET /api/bookings"
  /\ resp.status = 200
  /\ \E b \in Orphans :
       /\ b \in resp.rows
       /\ bookings[b].status = "confirmed"
       /\ bookings[b].createdBy = "SAC000001"
  /\ \E r \in Req : reqs[r].op = "deleteAvailability" /\ reqs[r].status = 200
(* ----------------------------- C33 ------------------------------------- *)
\* the stored rows that are active and carry the code
ActiveRows(code) ==
  {i \in DOMAIN accessCodes : accessCodes[i].code = code /\ accessCodes[i].active}

\* C33: a login with a code that no active AccessCode carries is answered
\* 401 and leaves every session, also its own, as it was; a login with the
\* code of an active AccessCode takes {id, code, role} from that row as it
\* is when the login reads it, and its end puts exactly these three into
\* its own session and touches no other; a session gets an identity in no
\* other way.
C33_IdentityComesFromAnActiveRow ==
  [][/\ \A r \in AuthReq, s \in LoginSessions :
          PostLogin(r, s, "ADM123456")
            => /\ sessions' = sessions
               /\ IF ActiveRows("ADM123456") = {}
                  THEN resp'.status = 401 /\ areqs' = areqs
                  ELSE /\ areqs'[r].pc = "save"
                       /\ areqs'[r].sid = s
                       /\ \E i \in ActiveRows("ADM123456") :
                            areqs'[r].user = [id |-> i,
                                              code |-> accessCodes[i].code,
                                              role |-> accessCodes[i].role]
     /\ \A r \in AuthReq :
          LoginSave(r)
            => /\ sessions'[areqs[r].sid] = areqs[r].user
               /\ \A s \in SessionIds \ {areqs[r].sid} : sessions'[s] = sessions[s]
     /\ \A s \in SessionIds :
          (sessions'[s] /= sessions[s] /\ sessions'[s] /= NoUser)
            => \E r \in AuthReq : LoginSave(r) /\ areqs[r].sid = s]_vars

\* a login has just been turned down while both sessions carry an identity,
\* one taken from the row when it was an admin, one when it was a sac
C33_Witness ==
  /\ resp.op = "POST /api/auth/login"
  /\ resp.status = 401
  /\ sessions["s1"] /= NoUser
  /\ sessions["s2"] /= NoUser
  /\ sessions["s1"].role /= sessions["s2"].role
(* ----------------------------- C34 ------------------------------------- *)
\* the step is one in which an initializeTursoDb ends
InitEnds ==
  \/ \E r \in AuthReq : areqs[r].op = "initializeTursoDb" /\ areqs'[r].pc = "idle"
  \/ resp' /= resp /\ resp'.op = "initializeTursoDb"

\* C34: every initializeTursoDb ends without throwing and leaves exactly
\* one AccessCode row with the code ADM123456.
C34_InitIsIdempotent ==
  [][InitEnds
       => /\ resp'.status = 200
          /\ Cardinality({i \in DOMAIN accessCodes' :
                            accessCodes'[i].code = "ADM123456"}) = 1]_vars
(* ----------------------------- C35 ------------------------------------- *)
\* an AccessCode as a caller of IStorage tells two of them apart
CodeView(row) == [id |-> row.id, code |-> row.code, role |-> row.role,
                  active |-> row.active]

StoreCalls == {"createAccessCode", "deleteAccessCode", "getAccessCode",
               "listAccessCodes", "createAvailability", "createBooking"}

AccessCodeCalls == {"createAccessCode", "getAccessCode", "listAccessCodes"}

Returned(o, op) ==
  [o EXCEPT !.rows = IF op \in AccessCodeCalls
                     THEN {CodeView(x) : x \in o.rows} ELSE o.rows]

\* C35: after every call of the sequence both stores have answered alike
\* and hold the same AccessCodes, Availabilities and Bookings.
C35_StoresInterchangeable ==
  resp.op \in StoreCalls
    => /\ Returned(resp.turso, resp.op) = Returned(resp.mem, resp.op)
       /\ {CodeView(accessCodes[i]) : i \in DOMAIN accessCodes}
            = {CodeView(mem.accessCodes[i]) : i \in DOMAIN mem.accessCodes}
       /\ {availabilities[i] : i \in DOMAIN availabilities}
            = {mem.availabilities[i] : i \in DOMAIN mem.availabilities}
       /\ {bookings[i] : i \in DOMAIN bookings}
            = {mem.bookings[i] : i \in DOMAIN mem.bookings}
(* ----------------------------- C36 ------------------------------------- *)
\* C36: PATCH /api/access-codes/:id by the admin answers 404 only when no
\* AccessCode has the id; on an existing id it answers with the updated
\* row, which is the stored row itself when the body names no field.
C36_AbsentOnlyWhenNoSuchId ==
  [][\A id \in 1..MaxCodes, u \in AccessCodeUpdates :
       PatchAccessCodes("s1", id, u)
         => IF id \in DOMAIN accessCodes
            THEN /\ resp'.status = 200
                 /\ accessCodes' = [accessCodes EXCEPT
                                      ![id] = updateAccessCodeRow(accessCodes[id], u)]
            ELSE /\ resp'.status = 404
                 /\ accessCodes' = accessCodes]_vars
====
